---- MODULE Spec2Model ----
(***************************************************************************)
(* A model of the three-particles simulation engine                        *)
(* (src/src/js/effects/three-particles/three-particles.ts): the registry    *)
(* of created systems, the per-system particle pool (struct of arrays),    *)
(* the emission scheduler (rate over time, rate over distance, bursts),    *)
(* the per-frame step function and the pause / resume / dispose controls;   *)
(* the Bezier curve cache (three-particles-bezier.ts) and calculateValue    *)
(* (three-particles-utils.ts).                                              *)
(*                                                                         *)
(* Conventions.  Times are integers in milliseconds (the unit of `now`).   *)
(* `delta` (seconds in the source) is carried as milliseconds, dMs, and    *)
(* every product with delta is written with dMs, so that lengths are in    *)
(* thousandths of a world unit.  Only the x axis of every vector is        *)
(* modelled: the source treats y and z by the same statements.  Gravity    *)
(* is 0 (the default), so gravityVelocity stays (0,0,0).  Array indices    *)
(* are 1-based; the "not found" index of the free-slot scan stays -1.      *)
(* Math.random() is a draw from RandomDraws, in thousandths.  Sizes,       *)
(* opacities, colours and rotations are in thousandths too; of a colour     *)
(* only the r channel is modelled.                                          *)
(***************************************************************************)
EXTENDS Integers, Sequences, FiniteSets, TLC

VARIABLES
    clock,              \* the `now` of the latest cycle the host passed in
    cfg,                \* system id -> normalized configuration
    inst,               \* system id -> instance data (generalData, attributes, ...)
    emitterPos,         \* system id -> world position of the emitter node (host scene)
    registry,           \* createdParticleSystems, a sequence of system ids
    geometryDisposed,   \* ids whose geometry and material have been disposed
    lastStep,           \* system id -> observation of its latest step
    passLog,            \* the systems the latest updateParticleSystems pass stepped
    cache,              \* the Bezier curve cache, a sequence of entries
    curveFunctions,     \* how many curve functions (closures) have been constructed
    evaluation          \* the latest calculateValue call of SpecValue and its outcome

vars == <<clock, cfg, inst, emitterPos, registry, geometryDisposed, lastStep, passLog,
          cache, curveFunctions, evaluation>>

\* ------------------------------------------------------------------ bounds
MaxTicks == 6           \* horizon of Spec, in ticks of TickMs
MaxMoves == 2           \* how far the emitter may travel, in moves of MoveStep
TickMs == 5 * 100       \* granularity of `now` in Spec
MoveStep == 5 * 100     \* one emitter move, in thousandths of a unit
RegistryTicks == 3      \* horizon of SpecRegistry, in ticks of TickMs
BurstTicks == 35        \* horizon of SpecBurst, in ticks of BurstUnit
BurstUnit == 2 * 100    \* granularity of `now` in SpecBurst
RateUnit == 5 * 10      \* granularity of `now` in SpecRate
RateWindow == 10 * 100  \* the window of the rate scenario, 1000 ms
MaxCurveFunctions == 3  \* how many curve functions SpecBezier constructs
PoolTicks == 6          \* horizon of SpecPool, in ticks of TickMs
DelayTicks == 4         \* horizon of SpecDelay, in ticks of TickMs
MaxEvaluations == 2     \* how many calls of calculateValue a behaviour makes
MaxPoints == 3          \* the longest array of control points of SpecCurve
CycleTicks == 13        \* horizon of SpecCycles, in ticks of TickMs
DistanceTicks == 3      \* horizon of SpecDistance, in ticks of TickMs
MaxModifierCalls == 3   \* how many activations and applyModifiers calls SpecVelocity makes
RepeatTicks == 3        \* horizon of SpecRepeat, in ticks of TickMs
LifeTicks == 6          \* horizon of SpecLife, in ticks of TickMs

\* ------------------------------------------------------- program constants
NoPosition == 0 - 99999 \* the "no previous world position" marker
NotFound == 0 - 1       \* particleIndex when the scan finds no inactive slot
RandomDraws == {0, 999} \* Math.random() in [0, 1), in thousandths

\* -------------------------------------------------------------- arithmetic
Abs(x) == IF x < 0 THEN 0 - x ELSE x

\* JavaScript's %: the result takes the sign of the dividend.
JSMod(a, b) == IF a >= 0 THEN a % b ELSE 0 - ((0 - a) % b)

\* Math.floor(num / den) for den > 0.
FloorDiv(num, den) == num \div den

ActiveSlots(arr) == {i \in DOMAIN arr : arr[i] # 0}

\* new Float32Array(maxParticles) filled with a value.
NewArrayOffByOne(maxParticles, v) == [i \in 1..(maxParticles + 1) |-> v]

NewArray(maxParticles, v) == [i \in 1..maxParticles |-> v]

\* calculateValue on a Constant: typeof value === 'number' returns the value.
CalculateValue(value) == value

\* A value handed to calculateValue, tagged with what the tests of the source
\* find: a number, or an object with the keys min and max.  A key's value is
\* <<v>> for the number v (in thousandths) and <<>> for undefined.
\* An object without both keys is of kind "object": type is its type key
\* ("undefined" when it has none), bezierPoints its array of control points and
\* scale its optional scale.
Constant(v) ==
    [kind |-> "number", value |-> v, min |-> <<>>, max |-> <<>>,
     type |-> "undefined", bezierPoints |-> <<>>, scale |-> <<>>]
RandomBetweenTwoConstants(min, max) ==
    [kind |-> "range", value |-> 0, min |-> min, max |-> max,
     type |-> "undefined", bezierPoints |-> <<>>, scale |-> <<>>]
LifetimeCurve(type, bezierPoints, scale) ==
    [kind |-> "object", value |-> 0, min |-> <<>>, max |-> <<>>,
     type |-> type, bezierPoints |-> bezierPoints, scale |-> scale]
\* null, undefined, a string or a boolean.
Primitive ==
    [kind |-> "primitive", value |-> 0, min |-> <<>>, max |-> <<>>,
     type |-> "undefined", bezierPoints |-> <<>>, scale |-> <<>>]

\* v ?? d
Nullish(v, d) == IF v = <<>> THEN d ELSE v[1]

\* THREE.MathUtils.randFloat(low, high) = low + Math.random() * (high - low)
RandFloat(low, high, random) == low + (random * (high - low)) \div 1000

\* calculateValue on an object with min and max: what it returns and how often
\* it calls the random source.  The default of max is 1, 1000 thousandths.
CalculateRangeAlwaysRandom(value, random) ==
    [result |-> RandFloat(Nullish(value.min, 0), Nullish(value.max, 1000), random),
     randomCalls |-> 1]

CalculateRange(value, random) ==
    IF value.min = value.max
    THEN [result |-> Nullish(value.min, 0), randomCalls |-> 0]
    ELSE [result |-> RandFloat(Nullish(value.min, 0), Nullish(value.max, 1000), random),
          randomCalls |-> 1]

NoEvaluation ==
    [done |-> FALSE, calls |-> 0, value |-> Constant(0), time |-> 0, random |-> 0,
     kind |-> "number", result |-> 0, exact |-> TRUE, randomCalls |-> 0]

\* --------------------------------------------------------- Bezier curve cache
\* A cache entry is [bezierPoints, curveFunction, referencedBy]: bezierPoints is
\* the identity of the points array (=== compares references), curveFunction
\* the identity of the closure built for it (the ordinal of its construction),
\* referencedBy the array of owner ids.
Includes(arr, x) == \E k \in DOMAIN arr : arr[k] = x

\* The lowest index of a set of indices, or NotFound: what find and findIndex
\* stop at.
Lowest(indices) ==
    IF indices = {} THEN NotFound
    ELSE CHOOSE k \in indices : \A j \in indices : k <= j

\* cache.find((item) => item.bezierPoints === bezierPoints)
FindByPoints(c, bezierPoints) ==
    Lowest({k \in DOMAIN c : c[k].bezierPoints = bezierPoints})

\* cache.findIndex((item) => item.referencedBy.includes(particleSystemId))
FindByOwner(c, particleSystemId) ==
    Lowest({k \in DOMAIN c : Includes(c[k].referencedBy, particleSystemId)})

\* cache.splice(index, 1)
Splice(arr, index) == [k \in 1..(Len(arr) - 1) |-> IF k < index THEN arr[k] ELSE arr[k + 1]]

\* createBezierCurveFunction(particleSystemId, bezierPoints) on the cache c
\* after `made` constructions: the cache it leaves, the count of constructions
\* and the curve function it returns.
CreateBezierCurveFunctionNoFind(c, made, particleSystemId, bezierPoints) ==
    [cache |-> Append(c, [bezierPoints |-> bezierPoints,
                          curveFunction |-> made + 1,
                          referencedBy |-> <<particleSystemId>>]),
     made |-> made + 1,
     curveFunction |-> made + 1]

CreateBezierCurveFunctionAlwaysPush(c, made, particleSystemId, bezierPoints) ==
    LET index == FindByPoints(c, bezierPoints) IN
    IF index # NotFound
    THEN [cache |-> [c EXCEPT ![index].referencedBy = Append(@, particleSystemId)],
          made |-> made,
          curveFunction |-> c[index].curveFunction]
    ELSE [cache |-> Append(c, [bezierPoints |-> bezierPoints,
                               curveFunction |-> made + 1,
                               referencedBy |-> <<particleSystemId>>]),
          made |-> made + 1,
          curveFunction |-> made + 1]

CreateBezierCurveFunction(c, made, particleSystemId, bezierPoints) ==
    LET index == FindByPoints(c, bezierPoints) IN
    IF index # NotFound
    THEN [cache |-> IF ~Includes(c[index].referencedBy, particleSystemId)
                    THEN [c EXCEPT ![index].referencedBy = Append(@, particleSystemId)]
                    ELSE c,
          made |-> made,
          curveFunction |-> c[index].curveFunction]
    ELSE [cache |-> Append(c, [bezierPoints |-> bezierPoints,
                               curveFunction |-> made + 1,
                               referencedBy |-> <<particleSystemId>>]),
          made |-> made + 1,
          curveFunction |-> made + 1]

\* One iteration of the loop of removeBezierCurveFunction on the entry at index.
ReleaseAtKeepEmpty(c, index, particleSystemId) ==
    [c EXCEPT ![index].referencedBy = SelectSeq(@, LAMBDA id : id # particleSystemId)]

ReleaseAt(c, index, particleSystemId) ==
    LET referencedBy == SelectSeq(c[index].referencedBy, LAMBDA id : id # particleSystemId) IN
    IF Len(referencedBy) = 0
    THEN Splice(c, index)
    ELSE [c EXCEPT ![index].referencedBy = referencedBy]

\* removeBezierCurveFunction(particleSystemId): while (true) { ... }
RECURSIVE RemoveBezierCurveFunction(_, _)
RemoveBezierCurveFunction(c, particleSystemId) ==
    LET index == FindByOwner(c, particleSystemId) IN
    IF index = NotFound THEN c
    ELSE RemoveBezierCurveFunction(ReleaseAt(c, index, particleSystemId), particleSystemId)

\* ---------------------------------------------------- Bezier curve function
\* A control point is [y, percentage]: y in thousandths, percentage <<p>> for
\* the tag p (in thousandths) and <<>> for a point without the key.  x is not
\* read by the curve function.
BezierPoint(y, percentage) == [y |-> y, percentage |-> percentage]

\* What a call returns or raises.  kind is "number" for a finite number (result
\* in thousandths, rounded down; exact tells that nothing was rounded), "NaN",
\* "Infinity" or "-Infinity" for the other values of a JavaScript number, and
\* "TypeError" or "Error" for a call that throws.
Number(v) == [kind |-> "number", result |-> v, exact |-> TRUE]
NotANumber(kind) == [kind |-> kind, result |-> 0, exact |-> TRUE]
Throws(outcome) == outcome.kind \in {"TypeError", "Error"}

\* nCr(n, k): z starts at 1 and is multiplied by (n + 1 - i) / i for i = 1..k;
\* every intermediate product is a binomial coefficient.
RECURSIVE NCr(_, _)
NCr(n, k) == IF k <= 0 THEN 1 ELSE (NCr(n, k - 1) * (n + 1 - k)) \div k

\* Math.pow(x, k) for an integer k >= 0; Math.pow(x, 0) is 1 for every x.
RECURSIVE Pow(_, _)
Pow(x, k) == IF k <= 0 THEN 1 ELSE x * Pow(x, k - 1)

Sign(x) == IF x < 0 THEN 0 - 1 ELSE IF x > 0 THEN 1 ELSE 0

\* The greatest common divisor: calculatedPercentage is kept as the fraction
\* num / den in lowest terms.
RECURSIVE GCD(_, _)
GCD(a, b) == IF b = 0 THEN a ELSE GCD(b, a % b)

Highest(indices) == CHOOSE k \in indices : \A j \in indices : k >= j

\* The loop `for (let i = 0; i <= n; i++) value += c * p.y` for a finite
\* calculatedPercentage num / den: the sum of the terms i..n over the common
\* denominator den^n.
RECURSIVE BernsteinSum(_, _, _, _, _, _)
BernsteinSum(bezierPoints, start, n, num, den, i) ==
    IF i > n THEN 0
    ELSE NCr(n, i) * Pow(den - num, n - i) * Pow(num, i) * bezierPoints[start + i].y
         + BernsteinSum(bezierPoints, start, n, num, den, i + 1)

\* The same loop when calculatedPercentage is not finite (a division by 0):
\* tsign is 0 for NaN (0 / 0), 1 for Infinity and -1 for -Infinity.  A term
\* with an exponent above 0 is NaN when the base is NaN or y is 0 and an
\* infinity of the sign of its factors otherwise; a sum that meets NaN, or
\* infinities of both signs, is NaN.
NonFiniteTerm(bezierPoints, start, n, tsign, i) ==
    LET y == bezierPoints[start + i].y IN
    IF tsign = 0 \/ y = 0 THEN 0
    ELSE Pow(0 - tsign, n - i) * Pow(tsign, i) * Sign(y)

NonFiniteSum(bezierPoints, start, n, tsign) ==
    LET terms == {NonFiniteTerm(bezierPoints, start, n, tsign, i) : i \in 0..n} IN
    IF terms = {1} THEN NotANumber("Infinity")
    ELSE IF terms = {0 - 1} THEN NotANumber("-Infinity")
    ELSE NotANumber("NaN")

\* The curve function createBezierCurveFunction builds for bezierPoints, called
\* with percentage (in thousandths).  Indices are 1-based: start and stop are
\* the source's start + 1 and stop + 1.  Reading a property of bezierPoints[k]
\* for a k outside the array throws a TypeError.
CurveFunctionUnclamped(bezierPoints, percentage) ==
    LET length == Len(bezierPoints)
        hit == Lowest({k \in 1..length : percentage < Nullish(bezierPoints[k].percentage, 0)})
        stop == IF hit = NotFound THEN length ELSE hit
        visited == IF hit = NotFound THEN 1..length ELSE 1..(hit - 1)
        tagged == {k \in visited : bezierPoints[k].percentage # <<>>}
        start == IF tagged = {} THEN 1 ELSE Highest(tagged)
        n == stop - start
    IN  IF length = 0 THEN NotANumber("TypeError")
        ELSE LET num == percentage - Nullish(bezierPoints[start].percentage, 0)
                 den == Nullish(bezierPoints[stop].percentage, 0)
                            - Nullish(bezierPoints[start].percentage, 0)
             IN  IF n = 0 THEN Number(bezierPoints[start].y)
                 ELSE IF den = 0 THEN NonFiniteSum(bezierPoints, start, n, Sign(num))
                 ELSE LET g == GCD(Abs(num), Abs(den))
                          sum == BernsteinSum(bezierPoints, start, n, num \div g, den \div g, 0)
                                     * Sign(Pow(den, n))
                          unit == Abs(Pow(den \div g, n))
                      IN  [kind |-> "number", result |-> sum \div unit,
                           exact |-> sum % unit = 0]

CurveFunctionNoClamp(bezierPoints, percentage) ==
    CurveFunctionUnclamped(bezierPoints, percentage)

CurveFunction(bezierPoints, percentage) ==
    IF percentage < 0
    THEN IF Len(bezierPoints) = 0 THEN NotANumber("TypeError")
         ELSE Number(bezierPoints[1].y)
    ELSE IF percentage > 1000
    THEN IF Len(bezierPoints) = 0 THEN NotANumber("TypeError")
         ELSE Number(bezierPoints[Len(bezierPoints)].y)
    ELSE CurveFunctionUnclamped(bezierPoints, percentage)

\* getCurveFunctionFromConfig(particleSystemId, lifetimeCurve) on the cache c:
\* kind tells which curve function it returns ("Error" when it throws), and
\* for a Bezier curve bezierPoints is the array the returned function closes
\* over, that of the entry found or pushed.
GetCurveFunctionFromConfigDefaulting(c, made, particleSystemId, lifetimeCurve) ==
    [kind |-> "EASING", cache |-> c, made |-> made, bezierPoints |-> <<>>]

GetCurveFunctionFromConfig(c, made, particleSystemId, lifetimeCurve) ==
    IF lifetimeCurve.type = "BEZIER"
    THEN LET r == CreateBezierCurveFunction(c, made, particleSystemId,
                                            lifetimeCurve.bezierPoints)
             entry == CHOOSE k \in DOMAIN r.cache :
                          r.cache[k].curveFunction = r.curveFunction
         IN  [kind |-> "BEZIER", cache |-> r.cache, made |-> r.made,
              bezierPoints |-> r.cache[entry].bezierPoints]
    ELSE IF lifetimeCurve.type = "EASING"
    THEN [kind |-> "EASING", cache |-> c, made |-> made, bezierPoints |-> <<>>]
    ELSE [kind |-> "Error", cache |-> c, made |-> made, bezierPoints |-> <<>>]

\* outcome * (lifetimeCurve.scale ?? 1), the scale in thousandths.
Scaled(outcome, scale) ==
    LET factor == Nullish(scale, 1000) IN
    IF Throws(outcome) THEN outcome
    ELSE IF outcome.kind = "number"
    THEN [kind |-> "number", result |-> (outcome.result * factor) \div 1000,
          exact |-> outcome.exact /\ (outcome.result * factor) % 1000 = 0]
    ELSE IF outcome.kind = "NaN" \/ factor = 0 THEN NotANumber("NaN")
    ELSE IF (outcome.kind = "Infinity") = (factor > 0) THEN NotANumber("Infinity")
    ELSE NotANumber("-Infinity")

\* calculateValue(particleSystemId, value, time) on the cache c: what it
\* returns or raises (`'min' in value` throws a TypeError on a primitive), how often it calls the random source, and the cache it
\* leaves.  The curve function of an easing curve is the caller's; the model
\* takes (time) => time.
CalculateTagged(c, made, particleSystemId, value, time, random) ==
    IF value.kind = "number"
    THEN [outcome |-> Number(CalculateValue(value.value)), randomCalls |-> 0,
          cache |-> c, made |-> made]
    ELSE IF value.kind = "range"
    THEN LET r == CalculateRange(value, random) IN
         [outcome |-> Number(r.result), randomCalls |-> r.randomCalls,
          cache |-> c, made |-> made]
    ELSE IF value.kind = "primitive"
    THEN [outcome |-> NotANumber("TypeError"), randomCalls |-> 0,
          cache |-> c, made |-> made]
    ELSE LET f == GetCurveFunctionFromConfig(c, made, particleSystemId, value)
             outcome == IF f.kind = "Error" THEN NotANumber("Error")
                        ELSE IF f.kind = "EASING" THEN Number(time)
                        ELSE CurveFunction(f.bezierPoints, time)
         IN  [outcome |-> Scaled(outcome, value.scale), randomCalls |-> 0,
              cache |-> f.cache, made |-> f.made]

\* ------------------------------------------------------ velocity over lifetime
\* The linear and orbital parts of applyModifiers and the data they read.  Here
\* a vector is <<x, y>>; of velocityOverLifetime.linear the x axis and of
\* velocityOverLifetime.orbital the y axis are modelled (orbitalEuler.set(x, z,
\* y) makes the orbital y speed the angle about the z axis, which turns x and
\* y).  Linear speeds are in thousandths of a unit per second and delta in ms,
\* so positions are in millionths of a unit; an orbital angle is counted in
\* quarter turns, orbital speeds in quarter turns per second.

\* value ? calculateValue(particleSystemId, value, 0) : 0 -- the speed an axis
\* gets at creation and again at every activation; the number 0 is falsy.
AxisSpeed(value, random) ==
    IF value = Constant(0) THEN 0
    ELSE CalculateTagged(<<>>, 0, 1, value, 0, random).outcome.result

\* isLifeTimeCurve(value || 0) ? getCurveFunctionFromConfig(id, value) :
\* undefined -- the curve function itself, which does not apply the scale.
ValueModifier(value) ==
    IF value.kind = "object" /\ value.type # "undefined"
    THEN [kind |-> value.type, bezierPoints |-> value.bezierPoints]
    ELSE [kind |-> "undefined", bezierPoints |-> <<>>]

\* valueModifiers.x(particleLifetimePercentage)
CallModifier(modifier, particleLifetimePercentage) ==
    IF modifier.kind = "BEZIER"
    THEN CurveFunction(modifier.bezierPoints, particleLifetimePercentage).result
    ELSE particleLifetimePercentage

\* valueModifiers.x ? valueModifiers.x(particleLifetimePercentage) : speed.x
NormalizedSpeed(data, particleLifetimePercentage) ==
    IF data.valueModifiers.kind # "undefined"
    THEN CallModifier(data.valueModifiers, particleLifetimePercentage)
    ELSE data.speed

\* THREE.Vector3.applyEuler for an angle about the z axis of a whole number of
\* quarter turns.
RECURSIVE ApplyEuler(_, _)
ApplyEuler(v, quarterTurns) ==
    IF quarterTurns <= 0 THEN v
    ELSE ApplyEuler(<<0 - v[2], v[1]>>, quarterTurns - 1)

\* The particle data the two velocity parts work on, as createParticleSystem
\* builds them for a slot.
NewVelocityParticle(velocityOverLifetime, random) ==
    [position |-> <<0, 0>>,
     linearVelocityData |->
         [speed |-> AxisSpeed(velocityOverLifetime.linear, random),
          valueModifiers |-> ValueModifier(velocityOverLifetime.linear)],
     orbitalVelocityData |->
         [speed |-> AxisSpeed(velocityOverLifetime.orbital, random) \div 1000,
          positionOffset |-> <<0, 0>>,
          valueModifiers |-> ValueModifier(velocityOverLifetime.orbital)]]

\* The linear part of applyModifiers.
ApplyLinearVelocity(p, particleLifetimePercentage, dMs) ==
    LET normalizedXSpeed == NormalizedSpeed(p.linearVelocityData, particleLifetimePercentage)
    IN  [p EXCEPT !.position[1] = @ + normalizedXSpeed * dMs]

\* The orbital part of applyModifiers: the offset is taken out of the
\* position, turned, and put back.
ApplyOrbitalVelocityAbsolute(p, particleLifetimePercentage, dMs) ==
    LET normalizedYSpeed == NormalizedSpeed(p.orbitalVelocityData, particleLifetimePercentage)
        turned == ApplyEuler(p.orbitalVelocityData.positionOffset,
                             (normalizedYSpeed * dMs) \div 1000)
    IN  [p EXCEPT !.position = turned,
                  !.orbitalVelocityData.positionOffset = turned]

ApplyOrbitalVelocity(p, particleLifetimePercentage, dMs) ==
    LET normalizedYSpeed == NormalizedSpeed(p.orbitalVelocityData, particleLifetimePercentage)
        positionOffset == p.orbitalVelocityData.positionOffset
        turned == ApplyEuler(positionOffset, (normalizedYSpeed * dMs) \div 1000)
    IN  [p EXCEPT !.position = <<@[1] - positionOffset[1] + turned[1],
                                 @[2] - positionOffset[2] + turned[2]>>,
                  !.orbitalVelocityData.positionOffset = turned]

\* applyModifiers with velocityOverLifetime active and nothing else.
ApplyVelocityModifiers(p, particleLifetimePercentage, dMs) ==
    ApplyOrbitalVelocity(ApplyLinearVelocity(p, particleLifetimePercentage, dMs),
                         particleLifetimePercentage, dMs)

\* The velocity part of activateParticle: the position is the spawn position
\* (in millionths), the speeds are sampled again, the offset is the spawn
\* position, and applyModifiers runs with delta 0 at percentage 0.
ActivateVelocityParticle(velocityOverLifetime, p, startPosition, random) ==
    ApplyVelocityModifiers(
        [p EXCEPT !.position = startPosition,
                  !.linearVelocityData.speed = AxisSpeed(velocityOverLifetime.linear, random),
                  !.orbitalVelocityData.speed =
                      AxisSpeed(velocityOverLifetime.orbital, random) \div 1000,
                  !.orbitalVelocityData.positionOffset = startPosition],
        0, 0)

\* ---------------------------------------------------------------- sphere shape
\* calculateRandomPositionAndVelocityOnSphere.  A vector is <<x, y, z>> in
\* thousandths; the emitter's quaternion is a rotation about the z axis by a
\* whole number of quarter turns, and the draws u and v are such that theta is
\* a whole number of quarter turns and phi is pi / 2 or pi, where the sines
\* and cosines are 0, 1 or -1.

\* Math.cos and Math.sin of 2 * Math.PI * u for u in thousandths of a turn.
Cos(u) == IF u = 0 THEN 1 ELSE IF u = 500 THEN 0 - 1 ELSE 0
Sin(u) == IF u = 250 THEN 1 ELSE IF u = 750 THEN 0 - 1 ELSE 0

\* <<xDirection, yDirection, zDirection>>: phi = Math.acos(2 * v - 1) is pi
\* for v = 0 and pi / 2 for v = 0.5.
SphereDirection(u, v) ==
    LET sinPhi == IF v = 500 THEN 1 ELSE 0
        cosPhi == IF v = 500 THEN 0 ELSE 0 - 1
    IN  <<sinPhi * Cos(u), sinPhi * Sin(u), cosPhi>>

\* THREE.Vector3.applyQuaternion for a rotation about z by quarter turns.
RECURSIVE ApplyQuaternion(_, _)
ApplyQuaternion(v, quarterTurns) ==
    IF quarterTurns <= 0 THEN v
    ELSE ApplyQuaternion(<<0 - v[2], v[1], v[3]>>, quarterTurns - 1)

\* position.length() of a vector along one axis.
Length(v) == Abs(v[1]) + Abs(v[2]) + Abs(v[3])

\* The position and the velocity the function leaves in its arguments (ratio
\* is the draw randomizedDistanceRatio); the velocity is NaN in every
\* component when the position has length 0 (1 / 0 = Infinity, 0 * Infinity
\* = NaN).
CalculateRandomPositionAndVelocityOnSphere(quaternion, speed, sphere, u, v, ratio) ==
    LET direction == SphereDirection(u, v)
        distance == (sphere.radius * (1000 - sphere.radiusThickness)) \div 1000
                    + (sphere.radius * sphere.radiusThickness * ratio)
                          \div (1000 * 1000)
        position == ApplyQuaternion([k \in 1..3 |-> distance * direction[k]], quaternion)
        length == Length(position)
    IN  [position |-> position,
         isNaN |-> length = 0,
         velocity |-> IF length = 0 THEN <<0, 0, 0>>
                      ELSE ApplyQuaternion([k \in 1..3 |-> (position[k] * speed) \div length],
                                           quaternion)]

\* ------------------------------------------------------------ construction
NewBurstState == [cyclesExecuted |-> 0, lastCycleTime |-> 0, probabilityPassed |-> FALSE]

\* startColor.min.r + colorRandomRatio * (startColor.max.r - startColor.min.r);
\* colours and the ratio are in thousandths.  Only the r channel is modelled:
\* the source treats g and b by the same statements.
StartColor(c, colorRandomRatio) ==
    c.startColorMin + (colorRandomRatio * (c.startColorMax - c.startColorMin)) \div 1000

\* createParticleSystem(config, externalNow): the instance data it registers.
\* colorRandomRatio is the one Math.random() the colour attributes share.
CreateInstance(c, externalNow, colorRandomRatio) ==
    LET calculatedCreationTime == externalNow + CalculateValue(c.startDelay) * 1000 IN
    [ creationTime |-> calculatedCreationTime,
      lastEmissionTime |-> calculatedCreationTime,
      isEnabled |-> TRUE,
      distanceFromLastEmitByDistance |-> 0,
      lastWorldPosition |-> NoPosition,
      worldPositionChange |-> 0,
      burstStates |-> [b \in DOMAIN c.bursts |-> NewBurstState],
      creationTimes |-> NewArray(c.maxParticles, 0),
      isActive |-> NewArray(c.maxParticles, 0),
      lifetime |-> NewArray(c.maxParticles, 0),
      startLifetime |-> NewArray(c.maxParticles, CalculateValue(c.startLifetime) * 1000),
      position |-> NewArray(c.maxParticles, 0),
      velocity |-> NewArray(c.maxParticles, CalculateValue(c.startSpeed)),
      size |-> NewArray(c.maxParticles, CalculateValue(c.startSize)),
      colorA |-> NewArray(c.maxParticles, 0),
      rotation |-> NewArray(c.maxParticles, 0),
      colorR |-> NewArray(c.maxParticles, StartColor(c, colorRandomRatio)),
      startSize |-> NewArray(c.maxParticles, CalculateValue(c.startSize)),
      startOpacity |-> NewArray(c.maxParticles, CalculateValue(c.startOpacity)),
      startColorR |-> NewArray(c.maxParticles, 0),
      rotationOverLifetime |-> NewArray(c.maxParticles,
                                        IF c.rotationOverLifetime THEN c.rotationRate ELSE 0) ]

\* ------------------------------------------------------------ particle pool
\* deactivateParticle(particleIndex)
DeactivateParticleResetsSize(st, particleIndex) ==
    [st EXCEPT !.isActive[particleIndex] = 0, !.colorA[particleIndex] = 0,
               !.size[particleIndex] = 0]

DeactivateParticle(st, particleIndex) ==
    [st EXCEPT !.isActive[particleIndex] = 0, !.colorA[particleIndex] = 0]

\* applyModifiers: the size, opacity, colour and rotation parts, each lifetime
\* curve linear (an easing function t -> t, or the Bezier points (0,0), (1,1),
\* which evaluate to t as well), so a multiplier is age / life (both in ms).
\* rotation += rate * delta * 0.02, with rotation in thousandths and delta in ms.
ApplyModifiersOpacityAlways(c, st, particleIndex, age, life, dMs) ==
    [st EXCEPT !.colorA[particleIndex] = FloorDiv(st.startOpacity[particleIndex] * age, life)]

ApplyModifiers(c, st, particleIndex, age, life, dMs) ==
    LET s1 == IF c.sizeOverLifetime
              THEN [st EXCEPT !.size[particleIndex] =
                                 FloorDiv(st.startSize[particleIndex] * age, life)]
              ELSE st
        s2 == IF c.opacityOverLifetime
              THEN [s1 EXCEPT !.colorA[particleIndex] =
                                 FloorDiv(s1.startOpacity[particleIndex] * age, life)]
              ELSE s1
        s3 == IF c.colorOverLifetime
              THEN [s2 EXCEPT !.colorR[particleIndex] =
                                 FloorDiv(s2.startColorR[particleIndex] * age, life)]
              ELSE s2
    IN IF c.rotationOverLifetime
       THEN [s3 EXCEPT !.rotation[particleIndex] =
                          @ + FloorDiv(s3.rotationOverLifetime[particleIndex] * dMs, 50)]
       ELSE s3

\* calculatePositionAndVelocity for a sphere of radius c.shapeRadius sampled on
\* its +x pole: the spawn-local position; the velocity is startSpeed along +x.
StartPosition(c) == c.shapeRadius

\* activateParticle({particleIndex, activationTime, position});
\* colorRandomRatio is its Math.random().
ActivateParticleKeepsRotation(c, st, particleIndex, activationTime, position, colorRandomRatio) ==
    LET s1 == [st EXCEPT
                 !.isActive[particleIndex] = 1,
                 !.creationTimes[particleIndex] = activationTime,
                 !.colorR[particleIndex] = StartColor(c, colorRandomRatio),
                 !.startColorR[particleIndex] = StartColor(c, colorRandomRatio),
                 !.startLifetime[particleIndex] = CalculateValue(c.startLifetime) * 1000,
                 !.startSize[particleIndex] = CalculateValue(c.startSize),
                 !.size[particleIndex] = CalculateValue(c.startSize),
                 !.startOpacity[particleIndex] = CalculateValue(c.startOpacity),
                 !.colorA[particleIndex] = CalculateValue(c.startOpacity),
                 !.rotationOverLifetime[particleIndex] =
                     IF c.rotationOverLifetime THEN c.rotationRate ELSE @,
                 !.velocity[particleIndex] = CalculateValue(c.startSpeed),
                 !.position[particleIndex] = position + StartPosition(c),
                 !.lifetime[particleIndex] = 0]
    IN ApplyModifiers(c, s1, particleIndex, 0, s1.startLifetime[particleIndex], 0)

ActivateParticleSkipsModifiers(c, st, particleIndex, activationTime, position, colorRandomRatio) ==
    [st EXCEPT
       !.isActive[particleIndex] = 1,
       !.creationTimes[particleIndex] = activationTime,
       !.colorR[particleIndex] = StartColor(c, colorRandomRatio),
       !.startColorR[particleIndex] = StartColor(c, colorRandomRatio),
       !.startLifetime[particleIndex] = CalculateValue(c.startLifetime) * 1000,
       !.startSize[particleIndex] = CalculateValue(c.startSize),
       !.size[particleIndex] = CalculateValue(c.startSize),
       !.startOpacity[particleIndex] = CalculateValue(c.startOpacity),
       !.colorA[particleIndex] = CalculateValue(c.startOpacity),
       !.rotation[particleIndex] = CalculateValue(c.startRotation),
       !.rotationOverLifetime[particleIndex] =
           IF c.rotationOverLifetime THEN c.rotationRate ELSE @,
       !.velocity[particleIndex] = CalculateValue(c.startSpeed),
       !.position[particleIndex] = position + StartPosition(c),
       !.lifetime[particleIndex] = 0]

ActivateParticle(c, st, particleIndex, activationTime, position, colorRandomRatio) ==
    LET s1 == [st EXCEPT
                 !.isActive[particleIndex] = 1,
                 !.creationTimes[particleIndex] = activationTime,
                 !.colorR[particleIndex] = StartColor(c, colorRandomRatio),
                 !.startColorR[particleIndex] = StartColor(c, colorRandomRatio),
                 !.startLifetime[particleIndex] = CalculateValue(c.startLifetime) * 1000,
                 !.startSize[particleIndex] = CalculateValue(c.startSize),
                 !.size[particleIndex] = CalculateValue(c.startSize),
                 !.startOpacity[particleIndex] = CalculateValue(c.startOpacity),
                 !.colorA[particleIndex] = CalculateValue(c.startOpacity),
                 !.rotation[particleIndex] = CalculateValue(c.startRotation),
                 !.rotationOverLifetime[particleIndex] =
                     IF c.rotationOverLifetime THEN c.rotationRate ELSE @,
                 !.velocity[particleIndex] = CalculateValue(c.startSpeed),
                 !.position[particleIndex] = position + StartPosition(c),
                 !.lifetime[particleIndex] = 0]
    IN ApplyModifiers(c, s1, particleIndex, 0, s1.startLifetime[particleIndex], 0)

\* --------------------------------------------------------------- step: aging
\* One iteration of the per-particle loop of updateParticleSystemInstance.
AgeSlotExpiresAtLifetime(c, st, index, nowT, dMs) ==
    IF st.isActive[index] = 0 THEN st
    ELSE
      LET particleLifetime == nowT - st.creationTimes[index] IN
      IF particleLifetime >= st.startLifetime[index]
      THEN DeactivateParticle(st, index)
      ELSE
        LET velocity == st.velocity[index]
            moves == velocity # 0 \/ st.worldPositionChange # 0
            p0 == st.position[index]
            p1 == IF moves /\ c.simulationSpace = "WORLD"
                  THEN p0 - st.worldPositionChange ELSE p0
            p2 == IF moves THEN p1 + velocity * dMs ELSE p0
            s1 == [st EXCEPT !.position[index] = p2,
                             !.lifetime[index] = particleLifetime]
        IN ApplyModifiers(c, s1, index, particleLifetime, st.startLifetime[index], dMs)

AgeSlotNoCompensation(c, st, index, nowT, dMs) ==
    IF st.isActive[index] = 0 THEN st
    ELSE
      LET particleLifetime == nowT - st.creationTimes[index] IN
      IF particleLifetime > st.startLifetime[index]
      THEN DeactivateParticle(st, index)
      ELSE
        LET s1 == [st EXCEPT !.position[index] = @ + st.velocity[index] * dMs,
                             !.lifetime[index] = particleLifetime]
        IN ApplyModifiers(c, s1, index, particleLifetime, st.startLifetime[index], dMs)

AgeSlotOnlyWhileEnabled(c, st, index, nowT, dMs) ==
    IF st.isActive[index] = 0 \/ ~st.isEnabled THEN st
    ELSE
      LET particleLifetime == nowT - st.creationTimes[index] IN
      IF particleLifetime > st.startLifetime[index]
      THEN DeactivateParticle(st, index)
      ELSE
        LET s1 == [st EXCEPT !.position[index] = @ + st.velocity[index] * dMs,
                             !.lifetime[index] = particleLifetime]
        IN ApplyModifiers(c, s1, index, particleLifetime, st.startLifetime[index], dMs)

AgeSlot(c, st, index, nowT, dMs) ==
    IF st.isActive[index] = 0 THEN st
    ELSE
      LET particleLifetime == nowT - st.creationTimes[index] IN
      IF particleLifetime > st.startLifetime[index]
      THEN DeactivateParticle(st, index)
      ELSE
        LET velocity == st.velocity[index]
            moves == velocity # 0 \/ st.worldPositionChange # 0
            p0 == st.position[index]
            p1 == IF moves /\ c.simulationSpace = "WORLD"
                  THEN p0 - st.worldPositionChange ELSE p0
            p2 == IF moves THEN p1 + velocity * dMs ELSE p0
            s1 == [st EXCEPT !.position[index] = p2,
                             !.lifetime[index] = particleLifetime]
        IN ApplyModifiers(c, s1, index, particleLifetime, st.startLifetime[index], dMs)

RECURSIVE AgingLoop(_, _, _, _, _)
AgingLoop(c, st, index, nowT, dMs) ==
    IF index > Len(st.creationTimes) THEN st
    ELSE AgingLoop(c, AgeSlot(c, st, index, nowT, dMs), index + 1, nowT, dMs)

\* World position tracking at the head of updateParticleSystemInstance.
TrackWorldPosition(st, currentWorldPosition) ==
    LET change == IF st.lastWorldPosition # NoPosition
                  THEN currentWorldPosition - st.lastWorldPosition
                  ELSE st.worldPositionChange
    IN [st EXCEPT
          !.worldPositionChange = change,
          !.distanceFromLastEmitByDistance = @ + Abs(change),
          !.lastWorldPosition = currentWorldPosition]

\* ------------------------------------------------------------ step: emission
\* Math.floor(rateOverTime * (emissionDelta / 1000))
NeededByTimeOfFrame(rateOverTime, emissionDelta) ==
    IF rateOverTime # 0 /\ emissionDelta > 0 THEN rateOverTime ELSE 0

NeededByTime(rateOverTime, emissionDelta) ==
    IF rateOverTime # 0 THEN FloorDiv(rateOverTime * emissionDelta, 1000) ELSE 0

\* Math.floor(distanceFromLastEmitByDistance / (1 / rateOverDistance)); the
\* distance is in thousandths of a unit.
NeededByDistanceAtMostOne(rateOverDistance, distance) ==
    IF rateOverDistance > 0 /\ distance * rateOverDistance >= 1000 THEN 1 ELSE 0

NeededByDistance(rateOverDistance, distance) ==
    IF rateOverDistance > 0 /\ distance > 0
    THEN FloorDiv(distance * rateOverDistance, 1000) ELSE 0

\* The body of the burst loop for one burst: the state it leaves, the count it
\* adds to neededParticles and whether a cycle executed.
BurstResetEveryStep(looping, burst, state, currentIterationTime) ==
    IF looping /\ state.cyclesExecuted > 0 THEN NewBurstState ELSE state

BurstReset(looping, burst, state, currentIterationTime) ==
    IF looping /\ currentIterationTime < burst.time * 1000 /\ state.cyclesExecuted > 0
    THEN NewBurstState ELSE state

\* nextCycleTime = burstTimeMs + state.cyclesExecuted * intervalMs
NextCycleTimeNoInterval(burst, state) == burst.time * 1000

NextCycleTime(burst, state) ==
    burst.time * 1000 + state.cyclesExecuted * (burst.interval * 1000)

ProcessBurstRollsEveryCycle(looping, burst, state0, currentIterationTime, random) ==
    LET state == BurstReset(looping, burst, state0, currentIterationTime)
        nextCycleTime == NextCycleTime(burst, state)
    IN IF state.cyclesExecuted >= burst.cycles
       THEN [state |-> state, count |-> 0, executed |-> FALSE]
       ELSE IF currentIterationTime >= nextCycleTime
       THEN LET passed == random < burst.probability
            IN [state |-> [cyclesExecuted |-> state.cyclesExecuted + 1,
                           lastCycleTime |-> currentIterationTime,
                           probabilityPassed |-> passed],
                count |-> IF passed THEN CalculateValue(burst.count) ELSE 0,
                executed |-> TRUE]
       ELSE [state |-> state, count |-> 0, executed |-> FALSE]

ProcessBurst(looping, burst, state0, currentIterationTime, random) ==
    LET state == BurstReset(looping, burst, state0, currentIterationTime)
        nextCycleTime == NextCycleTime(burst, state)
    IN IF state.cyclesExecuted >= burst.cycles
       THEN [state |-> state, count |-> 0, executed |-> FALSE]
       ELSE IF currentIterationTime >= nextCycleTime
       THEN LET passed == IF state.cyclesExecuted = 0
                          THEN random < burst.probability
                          ELSE state.probabilityPassed
            IN [state |-> [cyclesExecuted |-> state.cyclesExecuted + 1,
                           lastCycleTime |-> currentIterationTime,
                           probabilityPassed |-> passed],
                count |-> IF passed THEN CalculateValue(burst.count) ELSE 0,
                executed |-> TRUE]
       ELSE [state |-> state, count |-> 0, executed |-> FALSE]

\* The free-slot scan of the spawn loop.
FindInactiveFirstSlot(isActiveArr) == 1

FindInactiveHighest(isActiveArr) ==
    IF \E j \in DOMAIN isActiveArr : isActiveArr[j] = 0
    THEN CHOOSE j \in DOMAIN isActiveArr :
            /\ isActiveArr[j] = 0
            /\ \A k \in DOMAIN isActiveArr : isActiveArr[k] = 0 => j >= k
    ELSE NotFound

FindInactive(isActiveArr) ==
    IF \E j \in DOMAIN isActiveArr : isActiveArr[j] = 0
    THEN CHOOSE j \in DOMAIN isActiveArr :
            /\ isActiveArr[j] = 0
            /\ \A k \in DOMAIN isActiveArr : isActiveArr[k] = 0 => j <= k
    ELSE NotFound

\* One iteration of the spawn loop: acc = [st, generated, activated]; ratios
\* holds the Math.random() of the first, second, ... activation of the step.
SpawnOneStampAlways(c, acc, nowT, neededParticlesByDistance, distanceStep, ratios) ==
    LET particleIndex == FindInactive(acc.st.isActive) IN
    IF particleIndex # NotFound /\ particleIndex <= Len(acc.st.isActive)
    THEN
      LET useStep == neededParticlesByDistance > 0
                     /\ acc.generated < neededParticlesByDistance
          tempPosition == IF useStep THEN distanceStep * acc.generated ELSE 0
          s1 == ActivateParticle(c, acc.st, particleIndex, nowT, tempPosition,
                                 ratios[Cardinality(acc.activated) + 1])
      IN [st |-> [s1 EXCEPT !.lastEmissionTime = nowT],
          generated |-> IF useStep THEN acc.generated + 1 ELSE acc.generated,
          activated |-> acc.activated \cup {particleIndex}]
    ELSE [acc EXCEPT !.st.lastEmissionTime = nowT]

SpawnOne(c, acc, nowT, neededParticlesByDistance, distanceStep, ratios) ==
    LET particleIndex == FindInactive(acc.st.isActive) IN
    IF particleIndex # NotFound /\ particleIndex <= Len(acc.st.isActive)
    THEN
      LET useStep == neededParticlesByDistance > 0
                     /\ acc.generated < neededParticlesByDistance
          tempPosition == IF useStep THEN distanceStep * acc.generated ELSE 0
          s1 == ActivateParticle(c, acc.st, particleIndex, nowT, tempPosition,
                                 ratios[Cardinality(acc.activated) + 1])
      IN [st |-> [s1 EXCEPT !.lastEmissionTime = nowT],
          generated |-> IF useStep THEN acc.generated + 1 ELSE acc.generated,
          activated |-> acc.activated \cup {particleIndex}]
    ELSE acc

\* for (let i = 0; i < neededParticles; i++)
RECURSIVE SpawnLoop(_, _, _, _, _, _, _, _)
SpawnLoop(c, acc, i, neededParticles, nowT, neededParticlesByDistance, distanceStep, ratios) ==
    IF i >= neededParticles THEN acc
    ELSE SpawnLoop(c, SpawnOne(c, acc, nowT, neededParticlesByDistance, distanceStep, ratios),
                   i + 1, neededParticles, nowT, neededParticlesByDistance, distanceStep,
                   ratios)

RECURSIVE SumCounts(_, _)
SumCounts(results, n) == IF n = 0 THEN 0 ELSE results[n].count + SumCounts(results, n - 1)

\* ------------------------------------------------------------ step function
\* What a step leaves to be observed (it is no state of the program).
NoStep(st) ==
    [stepped |-> FALSE, now |-> 0, lifetime |-> 0, normalizedLifetime |-> 0,
     wasEnabled |-> TRUE, emitting |-> FALSE,
     byTime |-> 0, byDistance |-> 0, byBurst |-> 0, needed |-> 0,
     activeBefore |-> {}, deactivated |-> {}, activated |-> {},
     positionBefore |-> st.position, delta |-> 0, prevWasEnabled |-> TRUE,
     lastEmissionTimeBefore |-> st.lastEmissionTime,
     sinceLastActivation |-> 0, lastActivationNow |-> st.creationTime,
     ownElapsed |-> 0, prevDropped |-> FALSE, dropped |-> FALSE,
     callbacks |-> <<>>, afterDispose |-> FALSE,
     burstExecuted |-> {}, burstIteration |-> [b \in DOMAIN st.burstStates |-> 0 - 1],
     burstCounts |-> [b \in DOMAIN st.burstStates |-> 0],
     totalActivated |-> 0, burstOccurrences |-> 0, burstParticles |-> 0]

\* The callbacks the step invokes: onUpdate at the end of the emission branch,
\* onComplete in its else branch, each only if configured.
CallbackOfNoElse(c, emitting) ==
    (IF emitting /\ c.onUpdate.kind # "absent" THEN <<"onUpdate">> ELSE <<>>)
    \o (IF c.onComplete.kind # "absent" THEN <<"onComplete">> ELSE <<>>)

CallbackOf(c, emitting) ==
    IF emitting
    THEN IF c.onUpdate.kind # "absent" THEN <<"onUpdate">> ELSE <<>>
    ELSE IF c.onComplete.kind # "absent" THEN <<"onComplete">> ELSE <<>>

\* The guard of the emission branch:
\* isEnabled && (looping || lifetime < duration * 1000).
MayEmitIgnoringPause(c, isEnabled, lifetime) ==
    c.looping \/ lifetime < c.duration * 1000

MayEmitIgnoringDuration(c, isEnabled, lifetime) == isEnabled

MayEmit(c, isEnabled, lifetime) ==
    isEnabled /\ (c.looping \/ lifetime < c.duration * 1000)

\* updateParticleSystemInstance(props, {now, delta}): the instance data it
\* leaves and the observation of the step.  random.burst maps each burst to
\* its draw, random.color each activation of the step to its draw.
UpdateInstance(c, st, currentWorldPosition, nowT, dMs, random, prev, afterDispose) ==
    LET lifetime == nowT - st.creationTime
        normalizedLifetime == JSMod(lifetime, c.duration * 1000)
        isEnabled == st.isEnabled
        lastWorldPositionSnapshot == st.lastWorldPosition
        tracked == TrackWorldPosition(st, currentWorldPosition)
        agedSt == AgingLoop(c, tracked, 1, nowT, dMs)
        emitting == MayEmit(c, isEnabled, lifetime)
        emissionDelta == nowT - st.lastEmissionTime
        byTime == NeededByTime(CalculateValue(c.rateOverTime), emissionDelta)
        rateOverDistance == CalculateValue(c.rateOverDistance)
        byDistance == NeededByDistance(rateOverDistance,
                                       agedSt.distanceFromLastEmitByDistance)
        distanceStep == IF byDistance > 0
                        THEN (currentWorldPosition - lastWorldPositionSnapshot) \div byDistance
                        ELSE 0
        distSt == IF rateOverDistance > 0 /\ byDistance >= 1
                  THEN [agedSt EXCEPT !.distanceFromLastEmitByDistance = 0]
                  ELSE agedSt
        results == [b \in DOMAIN c.bursts |->
                      ProcessBurst(c.looping, c.bursts[b], st.burstStates[b],
                                   normalizedLifetime, random.burst[b])]
        byBurst == SumCounts(results, Len(c.bursts))
        burstSt == [distSt EXCEPT !.burstStates = [b \in DOMAIN c.bursts |-> results[b].state]]
        needed == byTime + byDistance + byBurst
        spawned == IF needed > 0
                   THEN SpawnLoop(c, [st |-> burstSt, generated |-> 0, activated |-> {}],
                                  0, needed, nowT, byDistance, distanceStep, random.color)
                   ELSE [st |-> burstSt, generated |-> 0, activated |-> {}]
        final == IF emitting THEN spawned.st ELSE agedSt
        activated == IF emitting THEN spawned.activated ELSE {}
        executed == IF emitting THEN {b \in DOMAIN c.bursts : results[b].executed} ELSE {}
        emittingBursts == {b \in executed : results[b].count > 0}
        iteration == lifetime \div (c.duration * 1000)
        dropped == emitting /\ needed > Cardinality(activated)
    IN [st |-> final,
        obs |->
          [stepped |-> TRUE, now |-> nowT, lifetime |-> lifetime,
           normalizedLifetime |-> normalizedLifetime,
           wasEnabled |-> isEnabled, emitting |-> emitting,
           byTime |-> IF emitting THEN byTime ELSE 0,
           byDistance |-> IF emitting THEN byDistance ELSE 0,
           byBurst |-> IF emitting THEN byBurst ELSE 0,
           needed |-> IF emitting THEN needed ELSE 0,
           activeBefore |-> ActiveSlots(st.isActive),
           deactivated |-> ActiveSlots(st.isActive) \ ActiveSlots(agedSt.isActive),
           positionBefore |-> st.position, delta |-> dMs,
           prevWasEnabled |-> prev.wasEnabled,
           activated |-> activated,
           lastEmissionTimeBefore |-> st.lastEmissionTime,
           sinceLastActivation |-> nowT - prev.lastActivationNow,
           lastActivationNow |-> IF activated # {} THEN nowT ELSE prev.lastActivationNow,
           ownElapsed |-> IF prev.stepped THEN nowT - prev.now ELSE lifetime,
           prevDropped |-> prev.dropped,
           dropped |-> dropped,
           callbacks |-> CallbackOf(c, emitting),
           afterDispose |-> afterDispose,
           burstExecuted |-> executed,
           burstCounts |-> [b \in DOMAIN c.bursts |->
                              IF emitting THEN results[b].count ELSE 0],
           burstIteration |-> [b \in DOMAIN c.bursts |->
                                 IF b \in executed THEN iteration ELSE prev.burstIteration[b]],
           totalActivated |-> prev.totalActivated + Cardinality(activated),
           burstOccurrences |-> prev.burstOccurrences + Cardinality(emittingBursts),
           burstParticles |-> prev.burstParticles
                              + (IF emitting THEN byBurst ELSE 0)]]

\* ------------------------------------------------------------------ registry
\* The part of the state one updateParticleSystems pass threads through its
\* callbacks: w = [inst, registry, geometryDisposed, lastStep, passLog, cache,
\* curveFunctions].
\* destroyParticleSystem(particleSystem): the registry is REPLACED by a filtered
\* copy; the removed system's curve functions are released and its geometry
\* and material are disposed.
DestroyParticleSystem(w, target) ==
    IF \E k \in DOMAIN w.registry : w.registry[k] = target
    THEN [w EXCEPT !.registry = SelectSeq(@, LAMBDA id : id # target),
                   !.cache = RemoveBezierCurveFunction(@, target),
                   !.geometryDisposed = @ \cup {target}]
    ELSE w

\* A user callback: it does nothing, or disposes a system.
RunCallback(w, cb) ==
    IF cb.kind = "dispose" THEN DestroyParticleSystem(w, cb.target) ELSE w

RECURSIVE RunCallbacks(_, _, _, _)
RunCallbacks(w, c, names, k) ==
    IF k > Len(names) THEN w
    ELSE RunCallbacks(RunCallback(w, IF names[k] = "onUpdate" THEN c.onUpdate ELSE c.onComplete),
                      c, names, k + 1)

\* Whether a step called applyModifiers, whose size-over-lifetime part calls
\* calculateValue on the lifetime curve: once for every particle the aging
\* loop kept and once for every particle activated.
ModifiersApplied(obs) ==
    obs.activated # {} \/ obs.activeBefore \ obs.deactivated # {}

\* calculateValue on a Bezier lifetime curve goes through
\* getCurveFunctionFromConfig to createBezierCurveFunction(particleSystemId,
\* bezierPoints); every call of a step after the first finds the entry and the
\* owner and changes nothing.
CurveLookups(w, s, obs) ==
    IF /\ cfg[s].sizeOverLifetime /\ cfg[s].sizeCurve.type = "BEZIER"
       /\ ModifiersApplied(obs)
    THEN LET r == CreateBezierCurveFunction(w.cache, w.curveFunctions, s,
                                            cfg[s].sizeCurve.bezierPoints)
         IN [w EXCEPT !.cache = r.cache, !.curveFunctions = r.made]
    ELSE w

\* updateParticleSystemInstance on system s, its callback included.
StepSystemSharedData(w, s, nowT, dMs, random, inPass) ==
    LET r == UpdateInstance(cfg[s], w.inst[s], emitterPos[s], nowT, dMs, random[s],
                            w.lastStep[s], s \in w.geometryDisposed)
        w1 == [w EXCEPT !.inst = [t \in DOMAIN @ |-> r.st],
                        !.lastStep[s] = r.obs,
                        !.passLog = IF inPass
                                    THEN Append(@, [sys |-> s, disposed |-> s \in w.geometryDisposed])
                                    ELSE @]
    IN RunCallbacks(CurveLookups(w1, s, r.obs), cfg[s], r.obs.callbacks, 1)

StepSystem(w, s, nowT, dMs, random, inPass) ==
    LET r == UpdateInstance(cfg[s], w.inst[s], emitterPos[s], nowT, dMs, random[s],
                            w.lastStep[s], s \in w.geometryDisposed)
        w1 == [w EXCEPT !.inst[s] = r.st,
                        !.lastStep[s] = r.obs,
                        !.passLog = IF inPass
                                    THEN Append(@, [sys |-> s, disposed |-> s \in w.geometryDisposed])
                                    ELSE @]
    IN RunCallbacks(CurveLookups(w1, s, r.obs), cfg[s], r.obs.callbacks, 1)

\* createdParticleSystems.forEach(...): arr is the array object the pass
\* started on; a registry replaced meanwhile is not what it iterates.
RECURSIVE ForEachSystem(_, _, _, _, _, _)
ForEachSystem(w, arr, k, nowT, dMs, random) ==
    IF k > Len(arr) THEN w
    ELSE ForEachSystem(StepSystem(w, arr[k], nowT, dMs, random, TRUE),
                       arr, k + 1, nowT, dMs, random)

World == [inst |-> inst, registry |-> registry, geometryDisposed |-> geometryDisposed,
          lastStep |-> lastStep, passLog |-> passLog,
          cache |-> cache, curveFunctions |-> curveFunctions]

Commit(w) ==
    /\ inst' = w.inst
    /\ registry' = w.registry
    /\ geometryDisposed' = w.geometryDisposed
    /\ lastStep' = w.lastStep
    /\ passLog' = w.passLog
    /\ cache' = w.cache
    /\ curveFunctions' = w.curveFunctions

\* The draws a colour ratio is taken from: with startColor.min = startColor.max
\* the ratio is multiplied by 0 and one draw stands for all.
ColorDraws(c) == IF c.startColorMin = c.startColorMax THEN {0} ELSE RandomDraws

\* The Math.random() draws of one step of each system: one for each burst and
\* one for each activation (a step activates a slot of the pool at most once).
Randoms ==
    LET draws(s) == [burst : [DOMAIN cfg[s].bursts -> RandomDraws],
                     color : [DOMAIN inst[s].isActive -> ColorDraws(cfg[s])]]
    IN {f \in [DOMAIN cfg -> UNION {draws(s) : s \in DOMAIN cfg}] :
           \A s \in DOMAIN cfg : f[s] \in draws(s)}

\* ------------------------------------------------------------------- actions
\* updateParticleSystems({now, delta}) with now = clock + dMs.
UpdateParticleSystems(dMs) ==
    /\ clock' = clock + dMs
    /\ \E random \in Randoms :
          Commit(ForEachSystem([World EXCEPT !.passLog = <<>>], registry, 1,
                               clock + dMs, dMs, random))
    /\ UNCHANGED <<cfg, emitterPos, evaluation>>

\* The update method of the handle createParticleSystem returned.
HandleUpdate(s, dMs) ==
    /\ clock' = clock + dMs
    /\ \E random \in Randoms :
          Commit(StepSystem(World, s, clock + dMs, dMs, random, FALSE))
    /\ UNCHANGED <<cfg, emitterPos, evaluation>>

PauseEmitter(s) ==
    /\ inst[s].isEnabled
    /\ inst' = [inst EXCEPT ![s].isEnabled = FALSE]
    /\ UNCHANGED <<clock, cfg, emitterPos, registry, geometryDisposed, lastStep, passLog,
                   cache, curveFunctions, evaluation>>

ResumeEmitter(s) ==
    /\ ~inst[s].isEnabled
    /\ inst' = [inst EXCEPT ![s].isEnabled = TRUE]
    /\ UNCHANGED <<clock, cfg, emitterPos, registry, geometryDisposed, lastStep, passLog,
                   cache, curveFunctions, evaluation>>

\* dispose() of the handle, called by the host between passes.
Dispose(s) ==
    /\ s \notin geometryDisposed
    /\ Commit(DestroyParticleSystem(World, s))
    /\ UNCHANGED <<clock, cfg, emitterPos, evaluation>>

\* The host moves the emitter node.
MoveEmitter(s) ==
    /\ emitterPos[s] < MaxMoves * MoveStep
    /\ emitterPos' = [emitterPos EXCEPT ![s] = @ + MoveStep]
    /\ UNCHANGED <<clock, cfg, inst, registry, geometryDisposed, lastStep, passLog,
                   cache, curveFunctions, evaluation>>

\* ------------------------------------------------------------ configurations
Absent == [kind |-> "absent", target |-> 0]
Noop == [kind |-> "noop", target |-> 0]
DisposeOf(t) == [kind |-> "dispose", target |-> t]

Burst(time, cycles, interval, count, probability) ==
    [time |-> time, cycles |-> cycles, interval |-> interval, count |-> count,
     probability |-> probability]

\* A lifetime curve: an easing function, or Bezier points given by the identity
\* of the points array.
Easing == [type |-> "EASING", bezierPoints |-> 0]
Bezier(bezierPoints) == [type |-> "BEZIER", bezierPoints |-> bezierPoints]

\* DEFAULT_PARTICLE_SYSTEM_CONFIG scaled to the model: seconds for duration,
\* startDelay, startLifetime and burst times, thousandths for size and opacity.
BaseConfig ==
    [maxParticles |-> 2, looping |-> TRUE, duration |-> 2, startDelay |-> 0,
     startLifetime |-> 1, startSpeed |-> 0, startSize |-> 1000, startOpacity |-> 1000,
     startRotation |-> 0, startColorMin |-> 1000, startColorMax |-> 1000,
     opacityOverLifetime |-> FALSE, colorOverLifetime |-> FALSE,
     rotationOverLifetime |-> FALSE, rotationRate |-> 0,
     shapeRadius |-> 0, rateOverTime |-> 2, rateOverDistance |-> 0, bursts |-> <<>>,
     simulationSpace |-> "LOCAL", sizeOverLifetime |-> TRUE, sizeCurve |-> Easing,
     onUpdate |-> Noop, onComplete |-> Noop]

LoopConfig == BaseConfig
OnceConfig == [BaseConfig EXCEPT !.looping = FALSE, !.duration = 1, !.startSpeed = 1]
DistanceConfig == [BaseConfig EXCEPT !.rateOverTime = 0, !.rateOverDistance = 4,
                                     !.simulationSpace = "WORLD"]
BurstConfig == [BaseConfig EXCEPT !.rateOverTime = 0,
                                  !.bursts = <<Burst(1, 2, 0, 3, 500)>>]

\* The configurations of Spec: one system, every emission source.
AllSourcesConfig == [BurstConfig EXCEPT !.rateOverTime = 2, !.rateOverDistance = 4,
                                        !.looping = FALSE]
MainConfigs == {LoopConfig, OnceConfig, DistanceConfig, BurstConfig, AllSourcesConfig}

\* The configurations of SpecRegistry: two small systems whose update callbacks
\* may dispose a system.
RegistryConfig == [BaseConfig EXCEPT !.maxParticles = 1, !.sizeCurve = Bezier(1)]
FirstConfigs == {[RegistryConfig EXCEPT !.onUpdate = u] : u \in {Noop, DisposeOf(1), DisposeOf(2)}}
SecondConfigs == {[RegistryConfig EXCEPT !.onUpdate = u, !.sizeCurve = Bezier(p)] :
                    u \in {Noop, DisposeOf(1)}, p \in {1, 2}}

\* The configurations of SpecPool: every modelled modifier at work on a pool of
\* two; a fixed and a random start colour.
PoolConfig == [BaseConfig EXCEPT !.startSpeed = 1, !.rotationOverLifetime = TRUE,
                                 !.rotationRate = 100]
FadeConfig == [PoolConfig EXCEPT !.opacityOverLifetime = TRUE, !.colorOverLifetime = TRUE]
RandomColorConfig == [PoolConfig EXCEPT !.startColorMin = 200]
PoolConfigs == {PoolConfig, FadeConfig, RandomColorConfig}

\* The configurations of SpecDelay: a start delay of one second before each
\* emission source and before all of them.
DelayedRateConfig == [BaseConfig EXCEPT !.startDelay = 1]
DelayedDistanceConfig == [DistanceConfig EXCEPT !.startDelay = 1]
DelayedBurstConfig == [BaseConfig EXCEPT !.startDelay = 1, !.rateOverTime = 0,
                                         !.bursts = <<Burst(0, 1, 0, 2, 1000)>>]
DelayedAllConfig == [DelayedBurstConfig EXCEPT !.rateOverTime = 2, !.rateOverDistance = 4]
DelayConfigs == {DelayedRateConfig, DelayedDistanceConfig, DelayedBurstConfig,
                 DelayedAllConfig}

\* rateOverTime = 10, looping, no bursts, no distance emission, free slots.
RateConfig == [BaseConfig EXCEPT !.maxParticles = 12, !.duration = 5, !.startLifetime = 5,
                                 !.rateOverTime = 10]

\* The burst {time: 0, cycles: 3, interval: 1, count: 5, probability: 1} on a
\* 5-second looping system.
\* The configuration of SpecCycles: a looping system of 3 s whose particles
\* live 1 s, with a burst of two cycles 1 s apart that starts 1 s into the
\* iteration and a burst of two cycles without interval at its start, each
\* passing its probability test on one draw of two.
CycleConfig ==
    [BaseConfig EXCEPT !.duration = 3, !.rateOverTime = 0, !.sizeOverLifetime = FALSE,
                       !.bursts = <<Burst(1, 2, 1, 1, 500), Burst(0, 2, 0, 1, 500)>>]

\* The configurations of SpecDistance: emission by distance on a pool of three,
\* at 1 particle per unit (a move of half a unit asks for nothing and is
\* carried), at 3 per unit (a move asks for 1 and leaves half a particle's
\* worth, two moves ask for 3), and at 3 per unit next to emission by time.
SparseTrailConfig ==
    [BaseConfig EXCEPT !.maxParticles = 3, !.rateOverTime = 0, !.rateOverDistance = 1,
                       !.sizeOverLifetime = FALSE]
DenseTrailConfig == [SparseTrailConfig EXCEPT !.rateOverDistance = 3,
                                              !.simulationSpace = "WORLD"]
MixedTrailConfig == [SparseTrailConfig EXCEPT !.rateOverDistance = 3, !.rateOverTime = 2]
TrailConfigs == {SparseTrailConfig, DenseTrailConfig, MixedTrailConfig}

BurstScenarioConfig ==
    [BaseConfig EXCEPT !.maxParticles = 15, !.duration = 5, !.startLifetime = 5,
                       !.rateOverTime = 0, !.sizeOverLifetime = FALSE,
                       !.bursts = <<Burst(0, 3, 1, 5, 1000)>>]

\* ------------------------------------------------------------- specification
InitWith(configs) ==
    /\ clock = 0
    /\ cfg = configs
    /\ \E ratios \in [DOMAIN configs -> RandomDraws] :
          /\ \A s \in DOMAIN configs : ratios[s] \in ColorDraws(configs[s])
          /\ inst = [s \in DOMAIN configs |-> CreateInstance(configs[s], 0, ratios[s])]
          /\ lastStep = [s \in DOMAIN configs |->
                            NoStep(CreateInstance(configs[s], 0, ratios[s]))]
    /\ emitterPos = [s \in DOMAIN configs |-> 0]
    /\ registry = [k \in DOMAIN configs |-> k]
    /\ geometryDisposed = {}
    /\ passLog = <<>>
    /\ cache = <<>>
    /\ curveFunctions = 0
    /\ evaluation = NoEvaluation

Deltas == {0, TickMs, 2 * TickMs}

\* Spec: one system, stepped by the host's frame loop, paused, resumed, moved.
Init == \E c \in MainConfigs : InitWith(<<c>>)

Tick(dMs) ==
    /\ clock + dMs <= MaxTicks * TickMs
    /\ UpdateParticleSystems(dMs)

Next ==
    \/ \E dMs \in Deltas : Tick(dMs)
    \/ \E s \in DOMAIN cfg : PauseEmitter(s)
    \/ \E s \in DOMAIN cfg : ResumeEmitter(s)
    \/ \E s \in DOMAIN cfg : MoveEmitter(s)

Spec == Init /\ [][Next]_vars

\* SpecRegistry: two systems created in the order 1, 2; passes, updates through
\* the handles, disposal by the host and from inside callbacks.
InitRegistry == \E c1 \in FirstConfigs, c2 \in SecondConfigs : InitWith(<<c1, c2>>)

RegistryTick ==
    /\ clock + TickMs <= RegistryTicks * TickMs
    /\ UpdateParticleSystems(TickMs)

RegistryHandleUpdate(s) ==
    /\ clock + TickMs <= RegistryTicks * TickMs
    /\ HandleUpdate(s, TickMs)

NextRegistry ==
    \/ RegistryTick
    \/ \E s \in DOMAIN cfg : RegistryHandleUpdate(s)
    \/ \E s \in DOMAIN cfg : Dispose(s)

SpecRegistry == InitRegistry /\ [][NextRegistry]_vars

\* SpecRate: the rate scenario; every split of the window into ticks that are
\* multiples of RateUnit.
InitRate == InitWith(<<RateConfig>>)

RateTick(dMs) ==
    /\ clock + dMs <= RateWindow
    /\ UpdateParticleSystems(dMs)

NextRate == \E k \in 1..(RateWindow \div RateUnit) : RateTick(k * RateUnit)

SpecRate == InitRate /\ [][NextRate]_vars

\* SpecBurst: the burst scenario; the first step is at the creation time and
\* no step jumps over the normalized loop times 1000 and 2000 of the first
\* iteration.
InitBurst == InitWith(<<BurstScenarioConfig>>)

BurstTick(dMs) ==
    /\ clock + dMs <= BurstTicks * BurstUnit
    /\ lastStep[1].stepped \/ dMs = 0
    /\ \A mark \in {1000, 2000} : clock < mark => clock + dMs <= mark
    /\ UpdateParticleSystems(dMs)

NextBurst == \E k \in 0..5 : BurstTick(k * BurstUnit)

SpecBurst == InitBurst /\ [][NextBurst]_vars

\* SpecPool: one system whose particles are sized, rotated, faded and moved,
\* stepped, paused and resumed.
InitPool == \E c \in PoolConfigs : InitWith(<<c>>)

PoolTick(dMs) ==
    /\ clock + dMs <= PoolTicks * TickMs
    /\ UpdateParticleSystems(dMs)

NextPool ==
    \/ \E dMs \in Deltas : PoolTick(dMs)
    \/ \E s \in DOMAIN cfg : PauseEmitter(s)
    \/ \E s \in DOMAIN cfg : ResumeEmitter(s)

SpecPool == InitPool /\ [][NextPool]_vars

\* SpecDelay: one system with a start delay, stepped while the host moves it.
InitDelay == \E c \in DelayConfigs : InitWith(<<c>>)

DelayTick(dMs) ==
    /\ clock + dMs <= DelayTicks * TickMs
    /\ UpdateParticleSystems(dMs)

NextDelay ==
    \/ \E dMs \in Deltas : DelayTick(dMs)
    \/ \E s \in DOMAIN cfg : MoveEmitter(s)

SpecDelay == InitDelay /\ [][NextDelay]_vars

\* SpecCycles: the two bursts of CycleConfig, stepped through two iterations
\* and into the third with frames of 0 to 1.5 s.
InitCycles == InitWith(<<CycleConfig>>)

CycleTick(dMs) ==
    /\ clock + dMs <= CycleTicks * TickMs
    /\ UpdateParticleSystems(dMs)

NextCycles == \E dMs \in Deltas \cup {3 * TickMs} : CycleTick(dMs)

SpecCycles == InitCycles /\ [][NextCycles]_vars

\* SpecDistance: one system emitting by distance, stepped, paused and resumed
\* while the host moves it.
InitDistance == \E c \in TrailConfigs : InitWith(<<c>>)

DistanceTick(dMs) ==
    /\ clock + dMs <= DistanceTicks * TickMs
    /\ UpdateParticleSystems(dMs)

NextDistance ==
    \/ \E dMs \in Deltas : DistanceTick(dMs)
    \/ \E s \in DOMAIN cfg : MoveEmitter(s)
    \/ \E s \in DOMAIN cfg : PauseEmitter(s)
    \/ \E s \in DOMAIN cfg : ResumeEmitter(s)

SpecDistance == InitDistance /\ [][NextDistance]_vars

\* SpecValue: calculateValue called with any number and any range over
\* Numbers, bounds undefined included, and any draw of the random source.
Numbers == {0 - 500, 0, 250, 1000, 2000}
OptionalNumbers == {<<>>} \cup {<<v>> : v \in Numbers}
Values == {Constant(v) : v \in Numbers}
          \cup {RandomBetweenTwoConstants(min, max) : min, max \in OptionalNumbers}
MoreDraws == RandomDraws \cup {500}

InitValue == InitWith(<<>>)

\* One call calculateValue(1, value, time) with the draw `random` of the random
\* source.
Evaluate(value, time, random) ==
    LET r == CalculateTagged(cache, curveFunctions, 1, value, time, random) IN
    /\ evaluation.calls < MaxEvaluations
    /\ evaluation' = [done |-> TRUE, calls |-> evaluation.calls + 1, value |-> value,
                      time |-> time, random |-> random, kind |-> r.outcome.kind,
                      result |-> r.outcome.result, exact |-> r.outcome.exact,
                      randomCalls |-> r.randomCalls]
    /\ cache' = r.cache
    /\ curveFunctions' = r.made
    /\ UNCHANGED <<clock, cfg, inst, emitterPos, registry, geometryDisposed, lastStep,
                   passLog>>

NextValue == \E value \in Values, random \in MoreDraws : Evaluate(value, 0, random)

SpecValue == InitValue /\ [][NextValue]_vars

\* SpecCurve: calculateValue called again and again, at any of Times, with one
\* value that is not a number and not a range: a Bezier curve over any array of
\* at most MaxPoints control points, an easing curve, an object without keys,
\* an object whose type is none of the two, and a primitive that is no number.
Ys == {0, 1000}
Tags == {<<>>, <<0>>, <<500>>, <<1000>>}
Points == {BezierPoint(y, percentage) : y \in Ys, percentage \in Tags}
PointArrays == UNION {[1..n -> Points] : n \in 0..MaxPoints}
Scales == {<<>>, <<2000>>}
Times == {0 - 500, 0, 250, 500, 1000, 1500}
CurveValues ==
    {LifetimeCurve("BEZIER", bezierPoints, scale) : bezierPoints \in PointArrays, scale \in Scales}
    \cup {LifetimeCurve("EASING", <<>>, scale) : scale \in Scales}
    \cup {LifetimeCurve("undefined", <<>>, <<>>), LifetimeCurve("999", <<>>, <<1000>>),
          Primitive}

InitCurve ==
    /\ clock = 0 /\ cfg = <<>> /\ inst = <<>> /\ lastStep = <<>> /\ emitterPos = <<>>
    /\ registry = <<>> /\ geometryDisposed = {} /\ passLog = <<>>
    /\ cache = <<>> /\ curveFunctions = 0
    /\ \E value \in CurveValues : evaluation = [NoEvaluation EXCEPT !.value = value]

NextCurve == \E time \in Times : Evaluate(evaluation.value, time, 0)

SpecCurve == InitCurve /\ [][NextCurve]_vars

\* SpecBezier: the curve cache alone, called by any owner with any of the
\* points arrays in any order.
Owners == {1, 2, 3}
PointsArrays == {1, 2}

InitBezier == InitWith(<<>>)

BezierCreate(particleSystemId, bezierPoints) ==
    LET r == CreateBezierCurveFunction(cache, curveFunctions, particleSystemId, bezierPoints) IN
    /\ r.made <= MaxCurveFunctions
    /\ cache' = r.cache
    /\ curveFunctions' = r.made
    /\ UNCHANGED <<clock, cfg, inst, emitterPos, registry, geometryDisposed, lastStep, passLog,
                   evaluation>>

BezierRemove(particleSystemId) ==
    /\ cache' = RemoveBezierCurveFunction(cache, particleSystemId)
    /\ UNCHANGED <<clock, cfg, inst, emitterPos, registry, geometryDisposed, lastStep, passLog,
                   curveFunctions, evaluation>>

NextBezier ==
    \/ \E id \in Owners, p \in PointsArrays : BezierCreate(id, p)
    \/ \E id \in Owners : BezierRemove(id)

SpecBezier == InitBezier /\ [][NextBezier]_vars

\* SpecVelocity: one particle of a system with velocityOverLifetime active,
\* activated and run through applyModifiers.  The linear axis is a constant,
\* a range, an easing curve or a Bezier curve, with and without a scale; the
\* orbital axis a constant or a range.
LinearValues ==
    {Constant(0), Constant(2000), RandomBetweenTwoConstants(<<1000>>, <<3000>>),
     LifetimeCurve("EASING", <<>>, <<>>), LifetimeCurve("EASING", <<>>, <<2000>>),
     LifetimeCurve("BEZIER", <<BezierPoint(1000, <<0>>), BezierPoint(3000, <<1000>>)>>,
                   <<2000>>)}
OrbitalValues ==
    {Constant(0), Constant(2000), RandomBetweenTwoConstants(<<2000>>, <<6000>>)}
StartPositions == {<<0, 0>>, <<1000000, 0>>, <<2000000, 1000000>>}
Percentages == {0, 500, 1000}

NoModifierCall == [done |-> FALSE, calls |-> 0, activated |-> FALSE, applied |-> FALSE,
                   percentage |-> 0, delta |-> 0, random |-> 0]

InitVelocity ==
    /\ clock = 0 /\ emitterPos = <<>> /\ registry = <<>> /\ geometryDisposed = {}
    /\ passLog = <<>> /\ cache = <<>> /\ curveFunctions = 0
    /\ evaluation = NoModifierCall
    /\ \E linear \in LinearValues, orbital \in OrbitalValues :
          /\ cfg = <<[linear |-> linear, orbital |-> orbital]>>
          /\ inst = <<NewVelocityParticle(cfg[1], 0)>>
          /\ lastStep = inst

\* activateParticle on the slot; lastStep keeps the particle as it was.
VelocityActivate(startPosition, random) ==
    /\ evaluation.calls < MaxModifierCalls
    /\ inst' = <<ActivateVelocityParticle(cfg[1], inst[1], startPosition, random)>>
    /\ lastStep' = inst
    /\ evaluation' = [done |-> TRUE, calls |-> evaluation.calls + 1, activated |-> TRUE,
                      applied |-> FALSE, percentage |-> 0, delta |-> 0, random |-> random]
    /\ UNCHANGED <<clock, cfg, emitterPos, registry, geometryDisposed, passLog, cache,
                   curveFunctions>>

\* applyModifiers on the active particle.
VelocityApply(particleLifetimePercentage, dMs) ==
    /\ evaluation.calls < MaxModifierCalls
    /\ evaluation.activated
    /\ inst' = <<ApplyVelocityModifiers(inst[1], particleLifetimePercentage, dMs)>>
    /\ lastStep' = inst
    /\ evaluation' = [evaluation EXCEPT !.calls = @ + 1, !.applied = TRUE,
                                        !.percentage = particleLifetimePercentage,
                                        !.delta = dMs]
    /\ UNCHANGED <<clock, cfg, emitterPos, registry, geometryDisposed, passLog, cache,
                   curveFunctions>>

NextVelocity ==
    \/ \E startPosition \in StartPositions, random \in RandomDraws \cup {500} :
          VelocityActivate(startPosition, random)
    \/ \E particleLifetimePercentage \in Percentages, dMs \in Deltas :
          VelocityApply(particleLifetimePercentage, dMs)

SpecVelocity == InitVelocity /\ [][NextVelocity]_vars

\* SpecRepeat: a system emitting by time, by time and distance, or by bursts of two
\* cycles (with and without an interval), stepped with frames of 0, 0.5 and 1 s,
\* paused, resumed and moved.
RepeatConfigs == {PoolConfig, MixedTrailConfig, CycleConfig}

InitRepeat == \E c \in RepeatConfigs : InitWith(<<c>>)

RepeatTick(dMs) ==
    /\ clock + dMs <= RepeatTicks * TickMs
    /\ UpdateParticleSystems(dMs)

NextRepeat ==
    \/ \E dMs \in Deltas : RepeatTick(dMs)
    \/ \E s \in DOMAIN cfg : MoveEmitter(s)
    \/ \E s \in DOMAIN cfg : PauseEmitter(s)
    \/ \E s \in DOMAIN cfg : ResumeEmitter(s)

SpecRepeat == InitRepeat /\ [][NextRepeat]_vars

\* SpecSphere: calculateRandomPositionAndVelocityOnSphere called with any of
\* four emitter rotations, a shell and a filled sphere, two speeds and any of
\* the draws.
Quaternions == 0..3
Spheres == {[radius |-> 2000, radiusThickness |-> t] : t \in {0, 1000}}
Speeds == {1000, 3000}
ArcDraws == {0, 250, 500, 750}
PolarDraws == {0, 500}

InitSphere == InitWith(<<>>)

SphereSample(quaternion, speed, sphere, u, v, randomizedDistanceRatio) ==
    LET r == CalculateRandomPositionAndVelocityOnSphere(quaternion, speed, sphere, u, v,
                                                        randomizedDistanceRatio) IN
    /\ evaluation' = [done |-> TRUE, quaternion |-> quaternion, speed |-> speed,
                      sphere |-> sphere, u |-> u, v |-> v,
                      randomizedDistanceRatio |-> randomizedDistanceRatio,
                      position |-> r.position, isNaN |-> r.isNaN,
                      velocity |-> r.velocity]
    /\ UNCHANGED <<clock, cfg, inst, emitterPos, registry, geometryDisposed, lastStep,
                   passLog, cache, curveFunctions>>

NextSphere ==
    \E quaternion \in Quaternions, speed \in Speeds, sphere \in Spheres,
       u \in ArcDraws, v \in PolarDraws, randomizedDistanceRatio \in RandomDraws :
        SphereSample(quaternion, speed, sphere, u, v, randomizedDistanceRatio)

SpecSphere == InitSphere /\ [][NextSphere]_vars

\* SpecLife: a looping and a non-looping system, stepped, paused and resumed,
\* where the host keeps stepping with a now that grows: the frames that move
\* the time on are taken again and again until the horizon.
LifeConfigs == {PoolConfig, OnceConfig}

InitLife == \E c \in LifeConfigs : InitWith(<<c>>)

LifeTick(dMs) ==
    /\ clock + dMs <= LifeTicks * TickMs
    /\ UpdateParticleSystems(dMs)

\* The host's frame loop goes on: a frame of one tick is taken whenever the
\* horizon leaves room for one.  Of the steps of NextLife exactly those of
\* LifeTick(TickMs) move the clock on by one tick, and one is possible
\* whenever the guard holds, so the fairness condition is that of
\* LifeTick(TickMs).
LifeAdvance ==
    /\ clock + TickMs <= LifeTicks * TickMs
    /\ clock' = clock + TickMs

NextLife ==
    \/ \E dMs \in Deltas : LifeTick(dMs)
    \/ \E s \in DOMAIN cfg : PauseEmitter(s)
    \/ \E s \in DOMAIN cfg : ResumeEmitter(s)

SpecLife == InitLife /\ [][NextLife]_vars /\ WF_clock(LifeAdvance)

\* ==================================================================== claims
Systems == DOMAIN cfg
ActiveCount(s) == Cardinality(ActiveSlots(inst[s].isActive))
DurationMs(s) == cfg[s].duration * 1000

\* What the aging phase of the latest step of s must have left in slot i, which
\* was active before the step: deactivated when its age exceeds its start
\* lifetime, otherwise aged, moved and run through the modifier pipeline.
AgedAsSpecified(s, i) ==
    LET ls == lastStep[s]
        st == inst[s]
        age == ls.now - st.creationTimes[i]
        life == st.startLifetime[i]
        moved == st.velocity[i] # 0 \/ st.worldPositionChange # 0
        shift == IF cfg[s].simulationSpace = "WORLD" THEN st.worldPositionChange ELSE 0
    IN IF age > life
       THEN st.isActive[i] = 0 /\ st.colorA[i] = 0
       ELSE /\ st.isActive[i] = 1
            /\ st.lifetime[i] = age
            /\ st.position[i] = IF moved
                                THEN ls.positionBefore[i] - shift + st.velocity[i] * ls.delta
                                ELSE ls.positionBefore[i]
            /\ cfg[s].sizeOverLifetime => st.size[i] = (cfg[s].startSize * age) \div life

\* C1: the number of slots whose isActive flag is set never exceeds
\* maxParticles, whatever a step requests from time, distance and bursts.
C1_ActiveNeverExceedsMax ==
    \A s \in Systems : ActiveCount(s) <= cfg[s].maxParticles

\* A step requested more than the free slots and the pool is full.
C1_Witness ==
    \E s \in Systems :
        /\ lastStep[s].dropped
        /\ lastStep[s].needed > cfg[s].maxParticles
        /\ ActiveCount(s) = cfg[s].maxParticles

\* C2 (as claimed): after a step that dropped requested particles, the next
\* step requests by time only what its own elapsed time produces.
C2_LaterStepRequestsOnlyItsOwnTime ==
    \A s \in Systems :
        (lastStep[s].emitting /\ lastStep[s].prevDropped)
            => lastStep[s].byTime <= NeededByTime(cfg[s].rateOverTime, lastStep[s].ownElapsed)

\* C2 (amended): nothing is queued, but lastEmissionTime is advanced only by a
\* step that activates a particle: every emitting step requests by time
\* floor(rate * (time since the last step that activated a particle, or since
\* creation) / 1000), which includes the elapsed time of the steps that
\* dropped their whole request.  The distance-based and burst parts of a
\* dropped request are gone: the accumulator is reset and the cycle counted.
C2_DroppedNotQueuedButTimeKept ==
    \A s \in Systems :
        LET ls == lastStep[s] IN
        ls.emitting =>
            /\ ls.byTime = NeededByTime(cfg[s].rateOverTime, ls.sinceLastActivation)
            /\ ls.needed = ls.byTime + ls.byDistance + ls.byBurst
            /\ ls.dropped =>
                 /\ ls.byDistance >= 1 => inst[s].distanceFromLastEmitByDistance = 0
                 /\ \A b \in ls.burstExecuted :
                        /\ inst[s].burstStates[b].cyclesExecuted >= 1
                        /\ inst[s].burstStates[b].lastCycleTime = ls.normalizedLifetime

\* A step after a step that dropped its whole request asks for more than its
\* own elapsed time gives.
C2_Witness ==
    \E s \in Systems :
        /\ lastStep[s].emitting /\ lastStep[s].prevDropped
        /\ lastStep[s].byTime > NeededByTime(cfg[s].rateOverTime, lastStep[s].ownElapsed)
        /\ lastStep[s].activated # {}

\* C3 (as claimed): with rateOverTime = 10 the ticks of a 1000 ms window
\* activate 10 particles, give or take 1, however the window is split.
C3_TenPerSecond ==
    (clock = RateWindow /\ lastStep[1].stepped)
        => lastStep[1].totalActivated \in 9..11

\* C4: the burst {time 0, cycles 3, interval 1, count 5, probability 1}
\* stepped at loop times 0, 1000, 2000 (and anywhere else in the iteration)
\* gives one occurrence of 5 particles at each of the three times: 3
\* occurrences and 15 burst particles in the first iteration.
C4_ThreeOccurrencesOfFive ==
    LET ls == lastStep[1]
        due == IF clock < 1000 THEN 1 ELSE IF clock < 2000 THEN 2 ELSE 3
    IN (ls.stepped /\ clock < DurationMs(1))
          => /\ ls.burstOccurrences = due
             /\ ls.burstParticles = 5 * due
             /\ ls.totalActivated = 5 * due

\* The iteration has been stepped past its third cycle.
C4_Witness ==
    /\ lastStep[1].stepped
    /\ clock > 2000 /\ clock < DurationMs(1)
    /\ lastStep[1].burstParticles = 15
    /\ ActiveCount(1) = 15

\* C5 (as claimed): in every loop iteration of a looping system each burst
\* fires again: a step at or after the burst's time in iteration k finds the
\* burst's latest cycle executed in iteration k.
C5_BurstFiresInEveryIteration ==
    \A s \in Systems :
        LET ls == lastStep[s] IN
        \A b \in DOMAIN cfg[s].bursts :
            (/\ ls.stepped /\ ls.emitting /\ cfg[s].looping
             /\ ls.normalizedLifetime >= cfg[s].bursts[b].time * 1000)
                => ls.burstIteration[b] = ls.lifetime \div DurationMs(s)

\* C6: a step of a paused emitter activates nothing and still ages, moves,
\* modifies and deactivates the particles that were active; an enabled step
\* inside the duration (or of a looping system) runs the emission branch.
C6_PauseSkipsEmissionOnly ==
    \A s \in Systems :
        LET ls == lastStep[s] IN
        ls.stepped =>
            /\ ~ls.wasEnabled =>
                 /\ ls.activated = {}
                 /\ ~ls.emitting
                 /\ \A i \in ls.activeBefore : AgedAsSpecified(s, i)
            /\ (ls.wasEnabled /\ (cfg[s].looping \/ ls.lifetime < DurationMs(s)))
                 => ls.emitting

\* A paused step that deactivated one particle and aged another.
C6_Witness ==
    \E s \in Systems :
        /\ lastStep[s].stepped /\ ~lastStep[s].wasEnabled
        /\ lastStep[s].deactivated # {}
        /\ \E i \in lastStep[s].activeBefore :
              inst[s].isActive[i] = 1 /\ inst[s].lifetime[i] > 0

\* A step after resumeEmitter activates again.
C6_ResumeWitness ==
    \E s \in Systems :
        /\ lastStep[s].wasEnabled /\ ~lastStep[s].prevWasEnabled
        /\ lastStep[s].activated # {}

C9_CompleteOnlyAfterDuration ==
    \A s \in Systems :
        (lastStep[s].stepped /\ lastStep[s].callbacks = <<"onComplete">>)
            => lastStep[s].lifetime >= DurationMs(s)

\* C10 (as claimed): no updateParticleSystems pass steps a system whose
\* dispose has returned, also when dispose ran inside a callback of the pass.
C10_NoStepAfterDispose ==
    \A k \in DOMAIN passLog : ~passLog[k].disposed

\* C11 (as claimed): once a system has been disposed no cache entry lists its
\* id as an owner, whatever follows: updates through its handle, the rest of a
\* pass in progress.
C11_NoOwnerAfterDispose ==
    \A s \in geometryDisposed :
        \A k \in DOMAIN cache : ~Includes(cache[k].referencedBy, s)

\* C12: the cache holds at most one entry for a points array, and a call with
\* the points array of an entry returns the curve function of that entry, for
\* every owner id, constructing nothing and adding no entry.
C12_SameArraySameFunction ==
    /\ \A j, k \in DOMAIN cache :
          cache[j].bezierPoints = cache[k].bezierPoints => j = k
    /\ \A k \in DOMAIN cache, id \in Owners :
          LET r == CreateBezierCurveFunction(cache, curveFunctions, id, cache[k].bezierPoints)
          IN /\ r.curveFunction = cache[k].curveFunction
             /\ r.made = curveFunctions
             /\ Len(r.cache) = Len(cache)

\* An entry shared by two owners that outlived the eviction of another entry.
C12_Witness ==
    /\ Len(cache) = 2
    /\ curveFunctions = 3
    /\ \E k \in DOMAIN cache :
          Len(cache[k].referencedBy) >= 2 /\ cache[k].curveFunction = 1

\* C13: removeBezierCurveFunction(id) leaves, in their order, exactly the
\* entries that have an owner other than id, each with id removed from its
\* owners and otherwise as it was; so no entry is ever left without an owner.
C13_ReleaseEvictsExactlyUnowned ==
    /\ \A k \in DOMAIN cache : Len(cache[k].referencedBy) > 0
    /\ \A id \in Owners :
          LET after == RemoveBezierCurveFunction(cache, id)
              kept == SelectSeq(cache, LAMBDA e :
                          \E j \in DOMAIN e.referencedBy : e.referencedBy[j] # id)
          IN /\ Len(after) = Len(kept)
             /\ \A k \in DOMAIN after :
                   /\ after[k].bezierPoints = kept[k].bezierPoints
                   /\ after[k].curveFunction = kept[k].curveFunction
                   /\ after[k].referencedBy
                        = SelectSeq(kept[k].referencedBy, LAMBDA o : o # id)

\* A cache in which releasing owner 1 evicts the first entry, strips the second
\* and leaves the second's other owner.
C13_Witness ==
    /\ Len(cache) = 2
    /\ cache[1].referencedBy = <<1>>
    /\ cache[2].referencedBy = <<2, 1>>
    /\ Len(RemoveBezierCurveFunction(cache, 1)) = 1

\* Every per-particle field of slot i.
SlotOf(st, i) ==
    [isActive |-> st.isActive[i], creationTime |-> st.creationTimes[i],
     lifetime |-> st.lifetime[i], startLifetime |-> st.startLifetime[i],
     position |-> st.position[i], velocity |-> st.velocity[i],
     size |-> st.size[i], rotation |-> st.rotation[i],
     colorR |-> st.colorR[i], colorA |-> st.colorA[i],
     startSize |-> st.startSize[i], startOpacity |-> st.startOpacity[i],
     startColorR |-> st.startColorR[i],
     rotationOverLifetime |-> st.rotationOverLifetime[i]]

Slots(s) == DOMAIN inst[s].isActive

\* C14: a slot a step deactivates (and does not activate again) has isActive 0
\* and colorA 0 and every other field as before the step; a slot that is
\* inactive before and after a step is untouched; and deactivating a slot right
\* after activating it leaves isActive 0 and colorA 0.
C14_DeactivateClearsFlagAndAlphaOnly ==
    /\ [][\A s \in Systems : \A i \in Slots(s) :
            /\ (inst[s].isActive[i] = 1 /\ inst'[s].isActive[i] = 0)
                 => SlotOf(inst'[s], i)
                      = [SlotOf(inst[s], i) EXCEPT !.isActive = 0, !.colorA = 0]
            /\ (inst[s].isActive[i] = 0 /\ inst'[s].isActive[i] = 0)
                 => SlotOf(inst'[s], i) = SlotOf(inst[s], i)]_vars
    /\ [](\A s \in Systems : \A i \in Slots(s) : \A ratio \in ColorDraws(cfg[s]) :
            LET st == DeactivateParticle(
                          ActivateParticle(cfg[s], inst[s], i, clock, 0, ratio), i)
            IN st.isActive[i] = 0 /\ st.colorA[i] = 0)

\* A step deactivated a particle that had aged, moved and rotated: what it left
\* in the slot is still there.
C14_Witness ==
    \E s \in Systems : \E i \in lastStep[s].deactivated :
        /\ inst[s].isActive[i] = 0 /\ inst[s].colorA[i] = 0
        /\ inst[s].lifetime[i] > 0 /\ inst[s].rotation[i] > 0 /\ inst[s].position[i] > 0

C16_ActivateOnlyInactive ==
    \A s \in Systems :
        LET ls == lastStep[s] IN
        /\ ls.activated \cap (ls.activeBefore \ ls.deactivated) = {}
        /\ \A i \in ls.activeBefore \ ls.deactivated :
              /\ inst[s].isActive[i] = 1
              /\ inst[s].creationTimes[i] <= ls.now - ls.delta
              /\ inst[s].lifetime[i] = ls.now - inst[s].creationTimes[i]

\* A step activated a particle in the free slot while the other slot's
\* particle stayed alive.
C16_Witness ==
    \E s \in Systems :
        /\ lastStep[s].activated = {2}
        /\ lastStep[s].activeBefore \ lastStep[s].deactivated = {1}
        /\ inst[s].creationTimes[1] < inst[s].creationTimes[2]

\* C19: with colorOverLifetime and opacityOverLifetime inactive and
\* startColor.min = startColor.max = c, every active particle has colour c and
\* alpha startOpacity, whatever the size, rotation and velocity did to it.
C19_ColorConstantWhileActive ==
    \A s \in Systems :
        (/\ ~cfg[s].colorOverLifetime /\ ~cfg[s].opacityOverLifetime
         /\ cfg[s].startColorMin = cfg[s].startColorMax)
            => \A i \in ActiveSlots(inst[s].isActive) :
                  /\ inst[s].colorR[i] = cfg[s].startColorMin
                  /\ inst[s].colorA[i] = cfg[s].startOpacity

\* A particle on which the size and rotation modifiers and the velocity have
\* acted.
C19_Witness ==
    \E s \in Systems : \E i \in ActiveSlots(inst[s].isActive) :
        /\ ~cfg[s].colorOverLifetime /\ ~cfg[s].opacityOverLifetime
        /\ cfg[s].startColorMin = cfg[s].startColorMax
        /\ inst[s].lifetime[i] > 0 /\ inst[s].rotation[i] > 0
        /\ inst[s].size[i] # inst[s].startSize[i] /\ inst[s].position[i] > 0
        /\ inst[s].colorA[i] = cfg[s].startOpacity

\* C17 (as claimed): with a start delay d > 0 no step whose now is earlier
\* than the time of creation plus d * 1000 activates a particle.
C17_NoActivationBeforeDelay ==
    \A s \in Systems :
        (/\ lastStep[s].stepped /\ cfg[s].startDelay > 0
         /\ lastStep[s].now < cfg[s].startDelay * 1000)
            => lastStep[s].activated = {}

\* C18: every step leaves lastWorldPosition at the emitter's world position;
\* for a particle with zero velocity that stays alive through a step, in WORLD
\* space the emitter's world position plus the stored position is after the
\* step what it was after the previous step, wherever the host moved the
\* emitter in between; in LOCAL space the stored position is what it was.
C18_WorldParticlesIgnoreEmitterMoves ==
    [][\A s \in Systems :
          /\ lastStep'[s] # lastStep[s] => inst'[s].lastWorldPosition = emitterPos'[s]
          /\ \A i \in Slots(s) :
                (/\ inst[s].isActive[i] = 1 /\ inst'[s].isActive[i] = 1
                 /\ inst'[s].creationTimes[i] = inst[s].creationTimes[i]
                 /\ inst[s].velocity[i] = 0)
                    => IF cfg[s].simulationSpace = "WORLD"
                       THEN inst'[s].lastWorldPosition + inst'[s].position[i]
                              = inst[s].lastWorldPosition + inst[s].position[i]
                       ELSE inst'[s].position[i] = inst[s].position[i]]_vars

\* A WORLD-space particle at rest whose stored position was shifted against an
\* emitter move.
C18_Witness ==
    \E s \in Systems : \E i \in ActiveSlots(inst[s].isActive) :
        /\ cfg[s].simulationSpace = "WORLD" /\ inst[s].velocity[i] = 0
        /\ inst[s].worldPositionChange > 0 /\ inst[s].lifetime[i] > 0
        /\ inst[s].position[i] < 0
        /\ lastStep[s].positionBefore[i] - inst[s].position[i] = inst[s].worldPositionChange

\* A LOCAL-space particle at rest whose emitter moved.
C18_LocalWitness ==
    \E s \in Systems : \E i \in ActiveSlots(inst[s].isActive) :
        /\ cfg[s].simulationSpace = "LOCAL" /\ inst[s].velocity[i] = 0
        /\ inst[s].worldPositionChange > 0 /\ inst[s].lifetime[i] > 0
        /\ inst[s].position[i] = lastStep[s].positionBefore[i]

\* C20: calculateValue on a range whose min and max are the same number
\* returns that number and does not call the random source.
C20_EqualBoundsNoRandom ==
    (/\ evaluation.done /\ evaluation.value.kind = "range"
     /\ evaluation.value.min # <<>>
     /\ evaluation.value.min = evaluation.value.max)
        => /\ evaluation.result = evaluation.value.min[1]
           /\ evaluation.randomCalls = 0

\* The range {min: 2, max: 2} evaluated with a draw that would have moved a
\* proper range.
C20_Witness ==
    /\ evaluation.done
    /\ evaluation.value = RandomBetweenTwoConstants(<<2000>>, <<2000>>)
    /\ evaluation.random = 999
    /\ evaluation.result = 2000

\* C21: calculateValue raises an error, at every time argument, on a value
\* that is no number, no range and no lifetime curve, on a lifetime curve
\* whose type is neither Bezier nor easing, and on a Bezier curve whose array
\* of control points is empty; it returns no number for them.
Unrecognised(value) ==
    \/ value.kind = "primitive"
    \/ value.kind = "object" /\ value.type \notin {"BEZIER", "EASING"}
    \/ value.kind = "object" /\ value.type = "BEZIER" /\ Len(value.bezierPoints) = 0

C21_UnrecognisedValueRaises ==
    (evaluation.done /\ Unrecognised(evaluation.value)) => Throws(evaluation)

\* A Bezier curve without control points evaluated inside [0, 1], and a curve
\* of an unknown type evaluated past 1.
C21_Witness ==
    /\ evaluation.done
    /\ \/ /\ evaluation.value = LifetimeCurve("BEZIER", <<>>, <<>>)
          /\ evaluation.time = 500 /\ evaluation.kind = "TypeError"
       \/ /\ evaluation.value = LifetimeCurve("999", <<>>, <<1000>>)
          /\ evaluation.time = 1500 /\ evaluation.kind = "Error"

\* What calculateValue makes of the y of a control point: y * (scale ?? 1).
ScaledY(value, k) == Scaled(Number(value.bezierPoints[k].y), value.scale)

IsBezier(value) ==
    value.kind = "object" /\ value.type = "BEZIER" /\ Len(value.bezierPoints) > 0

Returned(outcome) ==
    /\ evaluation.kind = outcome.kind
    /\ evaluation.result = outcome.result
    /\ evaluation.exact = outcome.exact

\* C22: on a non-empty array of control points the curve function returns the
\* y of the first point for every progress below 0 and the y of the last point
\* for every progress above 1, and a second call with the same progress
\* returns what the first call returned.
C22_ClampedAndRepeatable ==
    /\ []((evaluation.done /\ IsBezier(evaluation.value)) =>
            /\ evaluation.time < 0 => Returned(ScaledY(evaluation.value, 1))
            /\ evaluation.time > 1000 =>
                   Returned(ScaledY(evaluation.value, Len(evaluation.value.bezierPoints))))
    /\ [][(/\ evaluation.done /\ IsBezier(evaluation.value)
           /\ evaluation'.value = evaluation.value
           /\ evaluation'.time = evaluation.time)
              => /\ evaluation'.kind = evaluation.kind
                 /\ evaluation'.result = evaluation.result
                 /\ evaluation'.exact = evaluation.exact]_vars

\* The second call of the curve function of two untagged points past 1: the
\* first call built the function, the second took it from the cache.
C22_Witness ==
    /\ evaluation.calls = 2
    /\ evaluation.value = LifetimeCurve("BEZIER",
           <<BezierPoint(0, <<>>), BezierPoint(1000, <<>>)>>, <<>>)
    /\ evaluation.time = 1500
    /\ evaluation.kind = "number" /\ evaluation.result = 1000
    /\ Len(cache) = 1

\* Tags that anchor the curve: every point has one, the first is 0, the last
\* is 1 and they grow along the array.
AllTagged(bezierPoints) ==
    /\ \A k \in DOMAIN bezierPoints : bezierPoints[k].percentage # <<>>
    /\ bezierPoints[1].percentage = <<0>>
    /\ bezierPoints[Len(bezierPoints)].percentage = <<1000>>
    /\ \A j, k \in DOMAIN bezierPoints :
           j < k => bezierPoints[j].percentage[1] < bezierPoints[k].percentage[1]

NoneTagged(bezierPoints) == \A k \in DOMAIN bezierPoints : bezierPoints[k].percentage = <<>>

EndpointsReturned ==
    /\ evaluation.time = 0 => Returned(ScaledY(evaluation.value, 1))
    /\ evaluation.time = 1000 =>
           Returned(ScaledY(evaluation.value, Len(evaluation.value.bezierPoints)))

\* C23: the curve function returns the y of the first point at progress 0 and
\* the y of the last point at progress 1, for arrays whose points all carry
\* percentage tags and for arrays whose points carry none.
C23_EndpointsTaggedOrNot ==
    (/\ evaluation.done /\ IsBezier(evaluation.value)
     /\ \/ AllTagged(evaluation.value.bezierPoints)
        \/ NoneTagged(evaluation.value.bezierPoints))
        => EndpointsReturned

\* The part of C23 the curve function keeps: arrays whose points are all tagged.
C23_EndpointsOfTaggedArrays ==
    (/\ evaluation.done /\ IsBezier(evaluation.value)
     /\ AllTagged(evaluation.value.bezierPoints))
        => EndpointsReturned

\* Whether the action stepped system t: the step stamps its observation with
\* the time of the call, and every call of SpecRegistry moves the time on.
SteppedNow(t) == clock' > clock /\ lastStep'[t].stepped /\ lastStep'[t].now = clock'

\* C24: a step of one system leaves the instance data of every other system
\* (its per-particle arrays, burst states, lastEmissionTime, distance
\* accumulator and enabled flag) as they were; what a step does reach besides
\* its own system is the curve cache.
C24_StepChangesOwnSystemOnly ==
    [][\A t \in Systems : ~SteppedNow(t) => inst'[t] = inst[t]]_vars

\* System 2 was stepped through its handle and activated a particle at a time
\* at which system 1, stepped earlier and holding an active particle, was not;
\* the cache entry of the points array both use names both as owners.
C24_Witness ==
    /\ Systems = {1, 2}
    /\ lastStep[2].stepped /\ lastStep[2].now = clock /\ lastStep[2].activated # {}
    /\ lastStep[1].stepped /\ lastStep[1].now < clock
    /\ ActiveSlots(inst[1].isActive) # {}
    /\ inst[1].lastEmissionTime # inst[2].lastEmissionTime
    /\ \E k \in DOMAIN cache : Includes(cache[k].referencedBy, 1)
                               /\ Includes(cache[k].referencedBy, 2)

\* n = floor(x / 1000), said without a division.
IsFloorOfThousandth(n, x) == n * 1000 <= x /\ x < (n + 1) * 1000

\* C25: the time-based count of an emitting step is
\* floor(rateOverTime * (now - lastEmissionTime) / 1000); lastEmissionTime is
\* the time of creation plus the start delay until the first step, a step that
\* activates a particle (requested by time, distance or burst) sets it to its
\* now, and every other step leaves it as it was.
C25_TimeCountAndLastEmissionTime ==
    \A s \in Systems :
        /\ ~lastStep[s].stepped =>
               inst[s].lastEmissionTime = clock + cfg[s].startDelay * 1000
        /\ (lastStep[s].stepped /\ lastStep[s].emitting) =>
               IsFloorOfThousandth(lastStep[s].byTime,
                   cfg[s].rateOverTime
                       * (lastStep[s].now - lastStep[s].lastEmissionTimeBefore))
        /\ lastStep[s].stepped =>
               inst[s].lastEmissionTime =
                   IF lastStep[s].activated # {} THEN lastStep[s].now
                   ELSE lastStep[s].lastEmissionTimeBefore

\* With a start delay: a step whose time-based count asked for nothing
\* activated a particle the distance travelled or a burst asked for, and moved
\* lastEmissionTime to its now.
C25_Witness ==
    \E s \in Systems :
        /\ lastStep[s].stepped /\ lastStep[s].emitting
        /\ cfg[s].startDelay > 0 /\ cfg[s].rateOverTime # 0
        /\ lastStep[s].byTime <= 0
        /\ lastStep[s].byDistance + lastStep[s].byBurst > 0
        /\ lastStep[s].activated # {}
        /\ lastStep[s].lastEmissionTimeBefore # lastStep[s].now
        /\ inst[s].lastEmissionTime = lastStep[s].now

\* A step that requested particles by time and found the pool full: its
\* lastEmissionTime stays.
C25_KeptWitness ==
    \E s \in Systems :
        /\ lastStep[s].stepped /\ lastStep[s].emitting
        /\ lastStep[s].byTime > 0 /\ lastStep[s].activated = {}
        /\ inst[s].lastEmissionTime < lastStep[s].now

\* The state of burst b of system s, and whether the action executed a cycle
\* of it: its cyclesExecuted went up (a reset puts it to 0 in a step before
\* the burst's time, which executes nothing).
BurstState(s, b) == inst[s].burstStates[b]
CycleExecuted(s, b) ==
    inst'[s].burstStates[b].cyclesExecuted = BurstState(s, b).cyclesExecuted + 1

\* C26: cyclesExecuted never exceeds cycles; a step executes cycle k of a
\* burst only at a normalized loop time >= time + k * interval; a step
\* executes at most one cycle of a burst.
C26_CyclesDueAndOnePerStep ==
    /\ [](\A s \in Systems : \A b \in DOMAIN cfg[s].bursts :
             BurstState(s, b).cyclesExecuted <= cfg[s].bursts[b].cycles)
    /\ [][\A s \in Systems : \A b \in DOMAIN cfg[s].bursts :
             LET k == BurstState(s, b).cyclesExecuted
                 after == inst'[s].burstStates[b].cyclesExecuted
             IN /\ after \in {k, k + 1, 0}
                /\ CycleExecuted(s, b) =>
                       /\ b \in lastStep'[s].burstExecuted
                       /\ lastStep'[s].normalizedLifetime
                              >= cfg[s].bursts[b].time * 1000
                                     + k * cfg[s].bursts[b].interval * 1000]_vars

\* Both cycles of the burst with an interval have executed, the second at its
\* due time 2000 of the second iteration.
C26_Witness ==
    /\ lastStep[1].stepped
    /\ cfg[1].bursts[1].interval > 0
    /\ BurstState(1, 1).cyclesExecuted = 2
    /\ 1 \in lastStep[1].burstExecuted
    /\ lastStep[1].lifetime >= DurationMs(1)
    /\ lastStep[1].normalizedLifetime = 2000

\* C27: the probability of a burst is rolled in the step that executes cycle 0
\* and in no other: a later cycle carries the outcome on; an executed cycle
\* adds the burst's count to the request if the outcome is a pass and nothing
\* otherwise; cyclesExecuted goes up for every executed cycle either way.
C27_ProbabilityRolledOncePerOccurrence ==
    [][\A s \in Systems : \A b \in DOMAIN cfg[s].bursts :
          LET before == BurstState(s, b)
              after == inst'[s].burstStates[b]
          IN /\ CycleExecuted(s, b) =>
                   /\ before.cyclesExecuted > 0 =>
                          after.probabilityPassed = before.probabilityPassed
                   /\ lastStep'[s].burstCounts[b] =
                          IF after.probabilityPassed THEN cfg[s].bursts[b].count ELSE 0
             /\ (b \in lastStep'[s].burstExecuted /\ lastStep'[s] # lastStep[s])
                    => CycleExecuted(s, b)]_vars

\* The second cycle of an occurrence whose roll failed has executed: it added
\* nothing and was counted.
C27_Witness ==
    /\ lastStep[1].stepped /\ 1 \in lastStep[1].burstExecuted
    /\ BurstState(1, 1).cyclesExecuted = 2
    /\ ~BurstState(1, 1).probabilityPassed
    /\ lastStep[1].burstCounts[1] = 0

\* The second cycle of an occurrence whose roll passed.
C27_PassedWitness ==
    /\ lastStep[1].stepped /\ 1 \in lastStep[1].burstExecuted
    /\ BurstState(1, 1).cyclesExecuted = 2
    /\ BurstState(1, 1).probabilityPassed
    /\ lastStep[1].burstCounts[1] = cfg[1].bursts[1].count

\* Whether the action is a step of system s: a step is the only action that
\* leaves both the emitter where it is and the enabled flag as it is.
StepOf(s) == emitterPos' = emitterPos /\ inst'[s].isEnabled = inst[s].isEnabled

\* The length of the emitter's displacement since the previous step; before
\* the first step there is no previous position and nothing is added.
Displacement(s) ==
    IF inst[s].lastWorldPosition = NoPosition THEN 0
    ELSE Abs(emitterPos[s] - inst[s].lastWorldPosition)

\* C28: every step adds the length of the emitter's displacement to the
\* distance accumulator; the distance-based count of an emitting step is
\* floor(accumulator * rateOverDistance); a count >= 1 resets the accumulator
\* to 0, whatever fraction was left, and a count of 0 keeps it for the next
\* step.
C28_DistanceCountAndAccumulator ==
    [][\A s \in Systems :
          LET grown == inst[s].distanceFromLastEmitByDistance + Displacement(s)
              count == lastStep'[s].byDistance
              after == inst'[s].distanceFromLastEmitByDistance
          IN  (StepOf(s) /\ lastStep'[s].stepped) =>
                 IF lastStep'[s].emitting
                 THEN /\ IsFloorOfThousandth(count, grown * cfg[s].rateOverDistance)
                      /\ after = IF count >= 1 THEN 0 ELSE grown
                 ELSE after = grown]_vars

\* At 3 particles per unit a step after a move of half a unit has requested 1
\* particle and emptied the accumulator, giving up the half particle left.
C28_Witness ==
    \E s \in Systems :
        /\ lastStep[s].stepped /\ lastStep[s].emitting
        /\ cfg[s].rateOverDistance = 3
        /\ inst[s].worldPositionChange = MoveStep
        /\ lastStep[s].byDistance = 1
        /\ inst[s].distanceFromLastEmitByDistance = 0

\* At 1 particle per unit a step after a move of half a unit has requested
\* nothing and kept the half unit.
C28_CarriedWitness ==
    \E s \in Systems :
        /\ lastStep[s].stepped /\ lastStep[s].emitting
        /\ cfg[s].rateOverDistance = 1
        /\ lastStep[s].byDistance = 0
        /\ inst[s].distanceFromLastEmitByDistance = MoveStep

\* The particles the latest step of s activated are the lowest free slots in
\* turn: the rank of slot i among them is its place in the spawn loop.
SpawnRank(s, i) == Cardinality({j \in lastStep[s].activated : j < i})

\* The state a step of s has just left: the host has not moved the emitter since.
JustStepped(s) == lastStep[s].stepped /\ inst[s].lastWorldPosition = emitterPos[s]

\* C29 (as claimed): the k-th of the n distance-based particles of a step is
\* spawned on the emitter's path of that frame, between its previous and its
\* current world position, k/n of the displacement along it; particles
\* spawned beyond the first n are spawned at the emitter.
C29_SpawnPointsOnTravelPath ==
    \A s \in Systems : \A i \in lastStep[s].activated :
        LET n == lastStep[s].byDistance
            current == emitterPos[s]
            previous == current - inst[s].worldPositionChange
            spawnPoint == current + inst[s].position[i]
        IN  (JustStepped(s) /\ n >= 1) =>
               IF SpawnRank(s, i) < n
               THEN previous <= spawnPoint /\ spawnPoint <= current
               ELSE spawnPoint = current

\* What the spawn loop does: the stored position of the k-th distance-based
\* particle is k times the n-th part of the displacement of the frame, counted
\* from the emitter's current position in the direction of travel.
C29_OffsetsAheadOfEmitter ==
    \A s \in Systems : \A i \in lastStep[s].activated :
        LET n == lastStep[s].byDistance
            k == SpawnRank(s, i)
        IN  (JustStepped(s) /\ n >= 1) =>
               inst[s].position[i] =
                   IF k < n THEN k * (inst[s].worldPositionChange \div n) ELSE 0

\* What a step may move or modify of slot i.
Particle(st, i) ==
    [position |-> st.position[i], velocity |-> st.velocity[i], lifetime |-> st.lifetime[i],
     size |-> st.size[i], rotation |-> st.rotation[i], colorR |-> st.colorR[i]]

\* C30: a step deactivates every active particle whose age, its now minus the
\* particle's creation time, is above the particle's start lifetime, and does
\* not move or modify it; a particle whose age is at most its start lifetime,
\* equal included, stays active; so after every step every active slot has an
\* age from 0 to its start lifetime, a lifetime percentage in [0, 1].
C30_ExpiredDeactivatedUntouched ==
    /\ [][\A s \in Systems : \A i \in ActiveSlots(inst[s].isActive) :
             LET age == lastStep'[s].now - inst[s].creationTimes[i] IN
             (StepOf(s) /\ lastStep'[s].stepped) =>
                IF age > inst[s].startLifetime[i]
                THEN /\ i \in lastStep'[s].deactivated
                     /\ i \notin lastStep'[s].activated =>
                            /\ inst'[s].isActive[i] = 0
                            /\ Particle(inst'[s], i) = Particle(inst[s], i)
                ELSE /\ inst'[s].isActive[i] # 0
                     /\ i \notin lastStep'[s].deactivated
                     /\ inst'[s].lifetime[i] = age]_vars
    /\ [](\A s \in Systems : \A i \in ActiveSlots(inst[s].isActive) :
             LET age == lastStep[s].now - inst[s].creationTimes[i] IN
             lastStep[s].stepped =>
                 /\ 0 <= age /\ age <= inst[s].startLifetime[i]
                 /\ inst[s].lifetime[i] = age)

\* A step has deactivated a particle that had moved and turned, 1.5 start
\* lifetimes old, and has kept a particle at exactly its start lifetime.
C30_Witness ==
    \E s \in Systems : \E i, j \in DOMAIN inst[s].isActive :
        /\ lastStep[s].stepped
        /\ i \in lastStep[s].deactivated /\ i \notin lastStep[s].activated
        /\ inst[s].isActive[i] = 0
        /\ lastStep[s].now - inst[s].creationTimes[i] > inst[s].startLifetime[i]
        /\ inst[s].position[i] # 0 /\ inst[s].rotation[i] # 0
        /\ inst[s].isActive[j] # 0
        /\ lastStep[s].now - inst[s].creationTimes[j] = inst[s].startLifetime[j]

\* The slots that are inactive when the spawn loop of the latest step starts:
\* those inactive before the step and those its aging loop deactivated.
FreeAfterAging(s) ==
    (DOMAIN inst[s].isActive \ lastStep[s].activeBefore) \cup lastStep[s].deactivated

\* C31: within one step the aging loop, deactivations included, runs before
\* the spawn loop: only a slot that is inactive after aging is activated, a slot
\* the step deactivated among them; a particle the step activated has age 0
\* (creation time = the step's now, lifetime attribute 0), has been through the
\* modifiers once with delta 0 at lifetime percentage 0 (size and opacity at
\* their curves' value at 0, rotation at its start value) and has not been
\* aged or moved by the step: it is at its spawn position.
C31_AgingBeforeEmission ==
    \A s \in Systems : \A i \in lastStep[s].activated :
        (lastStep[s].stepped /\ lastStep[s].byDistance = 0) =>
            /\ lastStep[s].deactivated \subseteq lastStep[s].activeBefore
            /\ i \in FreeAfterAging(s)
            /\ inst[s].isActive[i] # 0
            /\ inst[s].creationTimes[i] = lastStep[s].now
            /\ inst[s].lifetime[i] = 0
            /\ inst[s].position[i] = StartPosition(cfg[s])
            /\ inst[s].velocity[i] = CalculateValue(cfg[s].startSpeed)
            /\ inst[s].rotation[i] = CalculateValue(cfg[s].startRotation)
            /\ inst[s].size[i] = IF cfg[s].sizeOverLifetime THEN 0
                                 ELSE CalculateValue(cfg[s].startSize)
            /\ inst[s].colorA[i] = IF cfg[s].opacityOverLifetime THEN 0
                                   ELSE CalculateValue(cfg[s].startOpacity)

\* A step of 1 s has deactivated a particle that had moved and turned and has
\* activated a new particle in the same slot.
C31_Witness ==
    \E s \in Systems : \E i \in lastStep[s].activated :
        /\ lastStep[s].stepped /\ lastStep[s].delta > 0
        /\ i \in lastStep[s].deactivated
        /\ lastStep[s].positionBefore[i] # StartPosition(cfg[s])
        /\ cfg[s].rotationOverLifetime /\ cfg[s].startSpeed # 0
        /\ inst[s].creationTimes[i] = lastStep[s].now

\* The n lowest indices of a set of slot indices.
LowestSlots(slots, n) == {i \in slots : Cardinality({j \in slots : j < i}) < n}

\* C32: the spawn loop takes the lowest-index inactive slot each time, so a
\* step that requests k > 0 particles activates the min(k, free) lowest of the
\* slots that are inactive after its aging loop, and a step that requests
\* k <= 0 activates none; the slots active after the step are those the aging
\* loop kept and those the spawn loop activated.
C32_LowestFreeSlotsFilled ==
    \A s \in Systems :
        LET free == FreeAfterAging(s)
            k == lastStep[s].needed
            n == IF k <= 0 THEN 0
                 ELSE IF k < Cardinality(free) THEN k ELSE Cardinality(free)
        IN  lastStep[s].stepped =>
               /\ lastStep[s].activated = LowestSlots(free, n)
               /\ Cardinality(lastStep[s].activated) = n
               /\ ActiveSlots(inst[s].isActive) =
                     (lastStep[s].activeBefore \ lastStep[s].deactivated)
                         \cup lastStep[s].activated

\* A step asked for more particles than there were inactive slots and filled
\* the one inactive slot, which was not the first of the pool.
C32_Witness ==
    \E s \in Systems :
        /\ lastStep[s].stepped
        /\ lastStep[s].needed > Cardinality(FreeAfterAging(s))
        /\ FreeAfterAging(s) = {2}
        /\ lastStep[s].activated = {2}

\* A step asked for fewer particles than there were inactive slots.
C32_PartWitness ==
    \E s \in Systems :
        /\ lastStep[s].stepped
        /\ lastStep[s].needed = 1 /\ Cardinality(FreeAfterAging(s)) = 2
        /\ lastStep[s].activated = {1}

\* A step inside the start delay had a negative request and activated nothing.
C32_NegativeWitness ==
    \E s \in Systems :
        /\ lastStep[s].stepped /\ lastStep[s].emitting
        /\ lastStep[s].needed < 0
        /\ lastStep[s].activated = {}

\* The percentage tags of an array are non-decreasing along the array.
TagsInOrder(bezierPoints) ==
    \A j, k \in DOMAIN bezierPoints :
        (/\ j < k /\ bezierPoints[j].percentage # <<>>
         /\ bezierPoints[k].percentage # <<>>)
            => bezierPoints[j].percentage[1] <= bezierPoints[k].percentage[1]

\* The tagged points whose percentage is at most p, and those above p.
AnchorsUpTo(bezierPoints, p) ==
    {k \in DOMAIN bezierPoints :
        bezierPoints[k].percentage # <<>> /\ bezierPoints[k].percentage[1] <= p}
AnchorsAbove(bezierPoints, p) ==
    {k \in DOMAIN bezierPoints :
        bezierPoints[k].percentage # <<>> /\ bezierPoints[k].percentage[1] > p}

\* The Bernstein-basis sum of degree stop - start over the points start..stop
\* at the local progress (p - start.percentage) / (stop.percentage -
\* start.percentage), for two tagged points start < stop.
SegmentValue(bezierPoints, start, stop, p) ==
    LET num == p - bezierPoints[start].percentage[1]
        den == bezierPoints[stop].percentage[1] - bezierPoints[start].percentage[1]
        g == GCD(num, den)
        n == stop - start
        sum == BernsteinSum(bezierPoints, start, n, num \div g, den \div g, 0)
        unit == Pow(den \div g, n)
    IN  [kind |-> "number", result |-> sum \div unit, exact |-> sum % unit = 0]

\* What the evaluator returns for a progress in [0, 1], on the arrays named by
\* the predicate of the caller: a finite number; between a tagged start (the
\* last tagged point at or below the progress) and a tagged stop (the first
\* point above it) the Bernstein sum of the segment; at the percentage of a
\* tagged point the y of the last point that carries it.
InterpolatesBetweenAnchors ==
    LET value == evaluation.value
        bezierPoints == value.bezierPoints
        p == evaluation.time
        below == AnchorsUpTo(bezierPoints, p)
        above == AnchorsAbove(bezierPoints, p)
    IN  /\ evaluation.kind = "number"
        /\ (below # {} /\ above # {}) =>
               Returned(Scaled(SegmentValue(bezierPoints, Highest(below), Lowest(above), p),
                               value.scale))
        /\ (below # {} /\ bezierPoints[Highest(below)].percentage = <<p>>) =>
               Returned(ScaledY(value, Highest(below)))

\* C33: for a progress p in [0, 1] the curve function takes as start the last
\* tagged point whose percentage is at most p and as stop the first point
\* whose percentage is above p (the last point when there is none) and returns
\* the Bernstein sum of degree stop - start over the points start..stop at the
\* local progress (p - start.percentage) / (stop.percentage - start.percentage);
\* at the percentage of a tagged point it returns that point's y.  Said of
\* every non-empty array whose tags are in order, tagged throughout or not.
C33_BernsteinBetweenAnchors ==
    (/\ evaluation.done /\ IsBezier(evaluation.value)
     /\ TagsInOrder(evaluation.value.bezierPoints)
     /\ 0 <= evaluation.time /\ evaluation.time <= 1000)
        => InterpolatesBetweenAnchors

\* The part of C33 the curve function keeps: arrays whose last point is tagged.
C33_BernsteinWhenLastTagged ==
    (/\ evaluation.done /\ IsBezier(evaluation.value)
     /\ TagsInOrder(evaluation.value.bezierPoints)
     /\ evaluation.value.bezierPoints[Len(evaluation.value.bezierPoints)].percentage # <<>>
     /\ 0 <= evaluation.time /\ evaluation.time <= 1000)
        => InterpolatesBetweenAnchors

\* A quadratic segment evaluated inside: three points, the middle one
\* untagged, at a quarter of the way.
C33_SegmentWitness ==
    /\ evaluation.done
    /\ evaluation.value = LifetimeCurve("BEZIER",
           <<BezierPoint(0, <<0>>), BezierPoint(1000, <<>>), BezierPoint(0, <<1000>>)>>, <<>>)
    /\ evaluation.time = 250
    /\ evaluation.kind = "number" /\ evaluation.result = 375

\* The particle of SpecVelocity before and after the latest applyModifiers.
VelocityApplied == evaluation.done /\ evaluation.applied

\* The linear part's change of the x position: the orbital part of the model
\* adds the turn of the offset on top, which is taken out again.
LinearMove ==
    (inst[1].position[1] - inst[1].orbitalVelocityData.positionOffset[1])
    - (lastStep[1].position[1] - lastStep[1].orbitalVelocityData.positionOffset[1])

\* The curve of an axis sampled at a percentage, times its scale.
ScaledCurve(value, particleLifetimePercentage) ==
    Scaled(Number(CallModifier(ValueModifier(value), particleLifetimePercentage)),
           value.scale).result

\* C34: the linear velocity modifier adds axisVelocity * delta to the position,
\* where axisVelocity is the speed sampled at activation for a constant or a
\* range and, for a lifetime curve, the curve at the particle's lifetime
\* percentage multiplied by the curve's scale.
C34_LinearVelocityScaledCurve ==
    VelocityApplied =>
        LinearMove =
            (IF cfg[1].linear.kind = "object"
             THEN ScaledCurve(cfg[1].linear, evaluation.percentage)
             ELSE lastStep[1].linearVelocityData.speed) * evaluation.delta

\* What the modifier does: for a lifetime curve the curve function is called
\* as getCurveFunctionFromConfig returned it, without the scale.
C34_LinearVelocityUnscaledCurve ==
    VelocityApplied =>
        /\ LinearMove =
            (IF cfg[1].linear.kind = "object"
             THEN CallModifier(ValueModifier(cfg[1].linear), evaluation.percentage)
             ELSE lastStep[1].linearVelocityData.speed) * evaluation.delta
        /\ cfg[1].linear.kind # "object" =>
              /\ inst[1].linearVelocityData.speed = lastStep[1].linearVelocityData.speed
              /\ inst[1].linearVelocityData.speed =
                    AxisSpeed(cfg[1].linear, evaluation.random)

\* A particle whose speed was drawn from a range has moved by it for half a
\* second; a particle on a Bezier curve with scale 2 has moved at mid-life.
C34_RangeWitness ==
    /\ VelocityApplied /\ cfg[1].linear.kind = "range"
    /\ evaluation.random = 500 /\ evaluation.delta = 500
    /\ LinearMove = 2000 * 500

C34_CurveWitness ==
    /\ VelocityApplied /\ cfg[1].linear.type = "BEZIER"
    /\ evaluation.percentage = 500 /\ evaluation.delta = 1000
    /\ LinearMove = 2000 * 1000

\* The orbit origin of the particle p: its position less its positionOffset.
OrbitOrigin(p) ==
    <<p.position[1] - p.orbitalVelocityData.positionOffset[1],
      p.position[2] - p.orbitalVelocityData.positionOffset[2]>>

\* The angle of the latest orbital step, in quarter turns.
OrbitTurns ==
    (NormalizedSpeed(lastStep[1].orbitalVelocityData, evaluation.percentage)
        * evaluation.delta) \div 1000

\* C35: the orbital part of applyModifiers changes the position only through
\* positionOffset: the orbit origin, position - positionOffset, with whatever
\* linear drift the position has gathered, is after the orbital step what it
\* was before it (what the linear part of the same call made it), the offset
\* is the old offset turned by speed * delta, and with delta = 0 the position
\* is unchanged.
C35_OrbitKeepsOrigin ==
    VelocityApplied =>
        /\ OrbitOrigin(inst[1]) =
              OrbitOrigin(ApplyLinearVelocity(lastStep[1], evaluation.percentage,
                                              evaluation.delta))
        /\ inst[1].orbitalVelocityData.positionOffset =
              ApplyEuler(lastStep[1].orbitalVelocityData.positionOffset, OrbitTurns)
        /\ cfg[1].linear = Constant(0) => OrbitOrigin(inst[1]) = OrbitOrigin(lastStep[1])
        /\ evaluation.delta = 0 => inst[1].position = lastStep[1].position

\* A particle that had drifted away from its orbit origin was turned by one
\* or more quarter turns about an offset that is not zero.
C35_Witness ==
    /\ VelocityApplied
    /\ OrbitOrigin(lastStep[1]) # <<0, 0>>
    /\ OrbitTurns % 4 # 0
    /\ lastStep[1].orbitalVelocityData.positionOffset # <<0, 0>>
    /\ inst[1].orbitalVelocityData.positionOffset
           # lastStep[1].orbitalVelocityData.positionOffset

\* A call with delta = 0 on a particle that had drifted and turned.
C35_ZeroDeltaWitness ==
    /\ VelocityApplied /\ evaluation.delta = 0
    /\ OrbitOrigin(lastStep[1]) # <<0, 0>>
    /\ lastStep[1].orbitalVelocityData.speed # 0
    /\ lastStep[1].orbitalVelocityData.positionOffset # <<0, 0>>

\* An action that steps system s again at the time of its previous step, with
\* the emitter where that step left it and enabled as it was then.
RepeatedStep(s) ==
    /\ StepOf(s) /\ clock' = clock
    /\ lastStep[s].stepped /\ lastStep[s].now = clock
    /\ lastStep'[s].stepped /\ lastStep'[s].delta = 0
    /\ inst[s].lastWorldPosition = emitterPos[s]
    /\ inst[s].isEnabled = lastStep[s].wasEnabled

\* What the claim lists of the particles and of the emission state.
ParticlesOf(st) ==
    [isActive |-> st.isActive, position |-> st.position, size |-> st.size,
     rotation |-> st.rotation, colorR |-> st.colorR, colorA |-> st.colorA]
EmissionStateOf(st) ==
    [lastEmissionTime |-> st.lastEmissionTime,
     distanceFromLastEmitByDistance |-> st.distanceFromLastEmitByDistance,
     burstStates |-> st.burstStates]

C36_CycleWitness ==
    \E s \in Systems : \E b \in DOMAIN cfg[s].bursts :
        /\ lastStep[s].stepped /\ lastStep[s].delta = 0
        /\ b \in lastStep[s].burstExecuted
        /\ inst[s].burstStates[b].cyclesExecuted = 2
        /\ lastStep[s].activated # {}

\* a x b and a . b
Cross(a, b) ==
    <<a[2] * b[3] - a[3] * b[2], a[3] * b[1] - a[1] * b[3], a[1] * b[2] - a[2] * b[1]>>
Dot(a, b) == a[1] * b[1] + a[2] * b[2] + a[3] * b[3]

\* A call that returned a position away from the centre of the sphere.
SphereSampled == evaluation.done /\ evaluation.position # <<0, 0, 0>>

\* C37: for the sphere shape the returned velocity is the outward direction
\* times the start speed: it is parallel to the returned position, points the
\* same way and has the length of the start speed, for every emitter rotation.
C37_SphereVelocityOutward ==
    SphereSampled =>
        /\ ~evaluation.isNaN
        /\ Cross(evaluation.velocity, evaluation.position) = <<0, 0, 0>>
        /\ Dot(evaluation.velocity, evaluation.position) > 0
        /\ Length(evaluation.velocity) = evaluation.speed

\* What the function returns: a velocity of the length of the start speed
\* along the returned position turned by the emitter's rotation once more.
C37_SphereVelocityTurnedTwice ==
    SphereSampled =>
        LET turned == ApplyQuaternion(evaluation.position, evaluation.quaternion) IN
        /\ ~evaluation.isNaN
        /\ Cross(evaluation.velocity, turned) = <<0, 0, 0>>
        /\ Dot(evaluation.velocity, turned) > 0
        /\ Length(evaluation.velocity) = evaluation.speed

\* An emitter turned by a quarter turn about z: the position is on the y axis
\* and the velocity along -x.
C37_TurnedWitness ==
    /\ SphereSampled /\ evaluation.quaternion = 1
    /\ evaluation.position = <<0, 2000, 0>>
    /\ evaluation.velocity = <<0 - 3000, 0, 0>>

\* Slot i of system 1 holds a particle whose start lifetime ends before the
\* horizon of SpecLife.
EndsBeforeHorizon(i) ==
    /\ inst[1].isActive[i] # 0
    /\ inst[1].creationTimes[i] + inst[1].startLifetime[i] < LifeTicks * TickMs

\* C38: while steps keep coming with a growing now, every activated particle
\* is deactivated, at the latest by the first step whose now is above its
\* creation time plus its start lifetime (no active particle is older than its
\* start lifetime after a step), whether the emitter is paused or not and
\* whether the system still emits or not; a system that is not looping ends
\* with no active slot for good.  A particle is followed up to the horizon:
\* one whose lifetime ends before it.
C38_EveryParticleDeactivated ==
    /\ [](\A i \in DOMAIN inst[1].isActive :
             (lastStep[1].stepped /\ inst[1].isActive[i] # 0) =>
                 clock <= inst[1].creationTimes[i] + inst[1].startLifetime[i])
    /\ \A i \in 1..BaseConfig.maxParticles :
          EndsBeforeHorizon(i) ~> (i \in lastStep[1].deactivated)
    /\ [](~cfg[1].looping => <>[](ActiveCount(1) = 0))

\* A step of a paused emitter has deactivated a particle; a system that is
\* not looping has lost its last particle after its duration.
C38_Witness ==
    /\ lastStep[1].stepped /\ ~lastStep[1].wasEnabled
    /\ lastStep[1].deactivated # {}
    /\ ActiveCount(1) = 0

C38_CompletedWitness ==
    /\ ~cfg[1].looping /\ lastStep[1].stepped /\ ~lastStep[1].emitting
    /\ lastStep[1].wasEnabled
    /\ lastStep[1].deactivated # {} /\ ActiveCount(1) = 0

\* C39: a call of createBezierCurveFunction repeated by the same owner with
\* the same points array leaves the cache, the count of constructions and the
\* returned curve function as the first call left them; an owner id occurs at
\* most once in the owner list of an entry; no entry has an empty owner list.
C39_RepeatedCreateChangesNothing ==
    /\ \A id \in Owners, p \in PointsArrays :
          LET first == CreateBezierCurveFunction(cache, curveFunctions, id, p)
              again == CreateBezierCurveFunction(first.cache, first.made, id, p)
          IN again = first
    /\ \A k \in DOMAIN cache :
          /\ \A i, j \in DOMAIN cache[k].referencedBy :
                cache[k].referencedBy[i] = cache[k].referencedBy[j] => i = j
          /\ cache[k].referencedBy # <<>>

\* Two entries, each shared by every owner, after one entry has been evicted
\* and made again: every further call is a repeated one.
C39_Witness ==
    /\ Len(cache) = 2
    /\ curveFunctions = 3
    /\ \A k \in DOMAIN cache : Len(cache[k].referencedBy) = Cardinality(Owners)

\* The latest step of s ran enabled and the step before it ran paused: the
\* first enabled step after resumeEmitter.
FirstStepAfterResume(s) ==
    /\ lastStep[s].stepped /\ lastStep[s].emitting
    /\ ~lastStep[s].prevWasEnabled

\* C40 (as claimed): the first enabled step after resumeEmitter requests by
\* time no more than rateOverTime applied to its own elapsed time, and by
\* distance no more than rateOverDistance applied to its own displacement.
C40_NoCatchUpAfterResume ==
    \A s \in Systems :
        FirstStepAfterResume(s) =>
            /\ lastStep[s].byTime
                 <= NeededByTime(cfg[s].rateOverTime, lastStep[s].ownElapsed)
            /\ lastStep[s].byDistance
                 <= NeededByDistance(cfg[s].rateOverDistance,
                                     Abs(inst[s].worldPositionChange))

\* C40 (what holds): the first enabled step after resumeEmitter requests by
\* time the rate applied to the time since lastEmissionTime, which the paused
\* steps did not advance, and by distance at least the rate applied to its own
\* displacement, the accumulator having grown in the paused steps too.
C40_ResumeEmitsForPausedTime ==
    \A s \in Systems :
        FirstStepAfterResume(s) =>
            /\ lastStep[s].byTime
                 = NeededByTime(cfg[s].rateOverTime,
                                lastStep[s].now - lastStep[s].lastEmissionTimeBefore)
            /\ lastStep[s].now - lastStep[s].lastEmissionTimeBefore >= lastStep[s].ownElapsed
            /\ lastStep[s].byDistance
                 >= NeededByDistance(cfg[s].rateOverDistance,
                                     Abs(inst[s].worldPositionChange))

\* After a pause the emitter has not moved in the step that follows the
\* resume, and that step takes no time, yet it requests particles by time and
\* by distance.
C40_CatchUpWitness ==
    \E s \in Systems :
        /\ FirstStepAfterResume(s)
        /\ lastStep[s].ownElapsed = 0 /\ inst[s].worldPositionChange = 0
        /\ lastStep[s].byTime > 0 /\ lastStep[s].byDistance > 0

====
